---- MODULE Spec2Model ----
(***************************************************************************)
(* Tick & Tie auditor: the field list, the document set with its            *)
(* per-document status, the extraction and reconciliation handlers of      *)
(* src/App.tsx and the export, with the collaborators (preview rendering,  *)
(* remote extraction, remote reconciliation) as nondeterministic outcomes. *)
(*                                                                         *)
(* An action is one synchronous segment of a handler: the code between two *)
(* awaits runs to completion before any other event is delivered, and the  *)
(* functional updaters it queues (setDocuments(prev => ...)) are applied   *)
(* in order to the latest list.                                            *)
(***************************************************************************)
EXTENDS Integers, Sequences, FiniteSets, TLC

\* ------------------------------------------------------------------ bounds
\* Files ever chosen in the file input (uuidv4 ids are modelled 1..MaxDocs).
MaxDocs == 2
\* Fields ever added with the Add button (their uuidv4 ids are 4..3+MaxFieldAdds).
MaxFieldAdds == 1
\* Handler segments of a whole session (Spec), which interleaves the field
\* sidebar, the Tick tab and the Tie tab.
MaxSteps == 8
\* Documents in the list when Export is clicked (SpecExport).
MaxExportDocs == 3
\* Lines of the report of the reconciliation that is exported (SpecReport).
MaxReportLines == 5
\* Characters of a name typed into the new-field input (SpecNames).
MaxNameLen == 2

\* ------------------------------------------------------------- value space
\* null (previewUrl: string | null) and an absent optional property (errorMsg?).
Null == "null"
Absent == "undefined"

\* The File objects a user can pick: name and declared media type.
FilePool ==
  { [name |-> "a.pdf", type |-> "application/pdf"],
    [name |-> "c.txt", type |-> "text/plain"] }

ImageTypes == {"image/png", "image/jpeg"}

\* renderPdfToImage: the values the returned promise can settle to. An image is
\* read as a data URL of its own type, the first page of a PDF is rendered to a
\* JPEG data URL, anything else throws; reading or rendering can fail.
RenderThrows == "throw"
renderPdfToImage(file) ==
  IF file.type \in ImageTypes
    THEN {"data:image/png;base64", RenderThrows}
    ELSE IF file.type = "application/pdf"
      THEN {"data:image/jpeg;base64", RenderThrows}
      ELSE {RenderThrows}

\* Strings that are inspected character by character (field names and keys)
\* are sequences of one-character strings.
UpperCase == <<"A", "B", "C", "D", "E", "F", "G", "H", "I", "J", "K", "L", "M",
               "N", "O", "P", "Q", "R", "S", "T", "U", "V", "W", "X", "Y", "Z">>
LowerCase == <<"a", "b", "c", "d", "e", "f", "g", "h", "i", "j", "k", "l", "m",
               "n", "o", "p", "q", "r", "s", "t", "u", "v", "w", "x", "y", "z">>
Digits == {"0", "1", "2", "3", "4", "5", "6", "7", "8", "9"}
WhiteSpace == {" ", "\t", "\n"}
Range(s) == { s[k] : k \in DOMAIN s }

\* String.prototype.toLowerCase on one character of the ASCII range.
toLowerCase(c) ==
  IF c \in Range(UpperCase)
    THEN LowerCase[CHOOSE k \in DOMAIN UpperCase : UpperCase[k] = c]
    ELSE c

\* Mutant of sanitizeKey: an upper-case letter is lower-cased and a lower-case
\* letter is upper-cased.
sanitizeKeySwapCase(name) ==
  [k \in 1..Len(name) |->
     IF name[k] \in Range(UpperCase)
       THEN LowerCase[CHOOSE i \in DOMAIN UpperCase : UpperCase[i] = name[k]]
       ELSE IF name[k] \in Range(LowerCase)
         THEN UpperCase[CHOOSE i \in DOMAIN LowerCase : LowerCase[i] = name[k]]
         ELSE IF name[k] \in Digits THEN name[k] ELSE "_"]

\* Mutant of sanitizeKey: the result is not lower-cased.
sanitizeKeyKeepCase(name) ==
  [k \in 1..Len(name) |->
     IF name[k] \in Range(UpperCase) \cup Range(LowerCase) \cup Digits
       THEN name[k] ELSE "_"]

\* name.replace(/[^a-zA-Z0-9]/g, '_').toLowerCase()
sanitizeKey(name) ==
  [k \in 1..Len(name) |->
     toLowerCase(IF name[k] \in Range(UpperCase) \cup Range(LowerCase) \cup Digits
                   THEN name[k] ELSE "_")]

\* Mutant of TrimsToEmpty: the name is not trimmed before the test.
IsEmptyName(name) == Len(name) = 0

\* name.trim() === '' (the falsy case of `!newFieldName.trim()`)
TrimsToEmpty(name) == \A k \in DOMAIN name : name[k] \in WhiteSpace

COLORS == <<"#ef4444", "#3b82f6", "#10b981", "#f59e0b", "#8b5cf6",
            "#ec4899", "#06b6d4", "#84cc16", "#f97316", "#6366f1">>

\* COLORS[index % COLORS.length], on a 1-based tuple
getNextColor(index) == COLORS[(index % Len(COLORS)) + 1]

\* useState<FieldDefinition[]>([...]): the three fields the app starts with.
DefaultFields ==
  << [id |-> 1,
      name |-> <<"I", "n", "v", "o", "i", "c", "e", " ", "N", "u", "m", "b", "e", "r">>,
      key |-> <<"i", "n", "v", "o", "i", "c", "e", "_", "n", "u", "m", "b", "e", "r">>,
      color |-> COLORS[1]],
     [id |-> 2,
      name |-> <<"I", "n", "v", "o", "i", "c", "e", " ", "D", "a", "t", "e">>,
      key |-> <<"i", "n", "v", "o", "i", "c", "e", "_", "d", "a", "t", "e">>,
      color |-> COLORS[2]],
     [id |-> 3,
      name |-> <<"T", "o", "t", "a", "l", " ", "A", "m", "o", "u", "n", "t">>,
      key |-> <<"t", "o", "t", "a", "l", "_", "a", "m", "o", "u", "n", "t">>,
      color |-> COLORS[3]] >>

\* What the user types into the new-field input in this model: a name with a
\* character outside [A-Za-z0-9], a blank name, and the name fileName.
NewFieldNames ==
  { <<"P", "O", " ", "#">>, <<" ", " ">>, <<"f", "i", "l", "e", "N", "a", "m", "e">> }

\* The parsed JSON bodies the remote extraction service answers with in this
\* model (its behaviour is opaque): an object with an entry for every property
\* of the response schema, i.e. one per distinct field key, or an empty object.
\* The service is told to return null for the value of a field it does not
\* find: here it does not find the invoice date.
NoData == << >>
ExtractedValue == [value |-> "INV-001", box_2d |-> <<50, 60, 90, 140>>]
NotFoundValue == [value |-> Null, box_2d |-> <<0, 0, 0, 0>>]
\* An entry that has a value and no box_2d (the export meets such a body).
NoBoxValue == [value |-> "100.00"]
SchemaKeys(fs) == { fs[k].key : k \in DOMAIN fs }
Results(fs) ==
  { NoData,
    [k \in SchemaKeys(fs) |->
       IF k = DefaultFields[2].key THEN NotFoundValue ELSE ExtractedValue] }

\* What `await ai.models.generateContent(...)` settles to in this model: the
\* call is rejected, or it resolves with a response whose text is empty, is
\* not JSON, or is the JSON text of one of the bodies above.
GenerateContentOutcomes(fs) ==
  { [rejected |-> TRUE, text |-> [empty |-> TRUE, json |-> FALSE, value |-> NoData]],
    [rejected |-> FALSE, text |-> [empty |-> TRUE, json |-> FALSE, value |-> NoData]],
    [rejected |-> FALSE, text |-> [empty |-> FALSE, json |-> FALSE, value |-> NoData]] }
  \cup { [rejected |-> FALSE, text |-> [empty |-> FALSE, json |-> TRUE, value |-> v]] :
           v \in Results(fs) }

\* processDocument after the remote call: a rejected call, `if (!text) throw`
\* and a JSON.parse that throws all end in the catch block, which rethrows.
ProcessDocumentThrows(outcome) ==
  \/ outcome.rejected
  \/ outcome.text.empty
  \/ ~outcome.text.json

\* `return JSON.parse(text)` for a text that parses.
ProcessDocumentReturns(outcome) == outcome.text.value

\* window.XLSX sheet_to_json of the reference file: no rows, or one row.
ReferenceSheets == { << >>, << [Invoice |-> "INV-001", Amount |-> "100"] >> }

\* The parts of a reconciliation response: narrative text, code the service
\* ran (part.executableCode is set) and the output of that code.
TextPart == [kind |-> "text", executableCode |-> FALSE, code |-> Absent]
OutputPart == [kind |-> "codeExecutionResult", executableCode |-> FALSE, code |-> Absent]
CodePart(code) == [kind |-> "executableCode", executableCode |-> TRUE, code |-> code]

\* What the remote reconciliation call answers with in this model: narrative
\* text with one code fragment; no text and no parts; narrative text with two
\* code fragments among parts of other kinds.
ReconcileResponses ==
  { [text |-> "report", parts |-> <<CodePart("print(1)")>>],
    [text |-> "", parts |-> << >>],
    [text |-> "report",
     parts |-> <<TextPart, CodePart("print(1)"), OutputPart, CodePart("print(2)")>>] }

VARIABLES
  fields,        \* useState<FieldDefinition[]>: the ordered field list
  nextFieldId,   \* the next fresh uuidv4 of a field
  referenceData, \* useState<any[]>([]): the parsed reference rows
  isReconciling, \* useState(false): the busy flag of runReconciliation
  reconcileResult, \* useState<ReconcileResult | null>(null)
  recons,        \* runReconciliation invocations in flight
  alerted,       \* the message of the last window.alert, null before the first
  replaced,      \* the result that the last accepted reconciliation found stored
  documents,     \* useState<DocumentResult[]>: the ordered document list
  isProcessing,  \* useState(false): the busy flag of runExtraction
  runs,          \* runExtraction invocations in flight: their closures and await
  uploads,       \* handleFileUpload invocations in flight: files and newDocs
  nextId,        \* the next fresh uuidv4
  apiKey,        \* process.env.API_KEY is set
  exported,      \* what the last export put into the archive, null before it
  lastOp,        \* the handler segment that ran last
  steps          \* handler segments run so far in a step-bounded session

fieldVars == <<fields, nextFieldId>>
tieVars == <<referenceData, isReconciling, reconcileResult, recons, alerted, replaced>>
docVars == <<documents, isProcessing, runs, uploads, nextId>>
vars == <<fieldVars, tieVars, docVars, apiKey, exported, lastOp, steps>>

\* --------------------------------------------------------------- documents
\* The record handleFileUpload pushes after a preview was rendered.
NewDocOk(id, file, previewUrl) ==
  [id |-> id, file |-> file, fileName |-> file.name, fileType |-> file.type,
   previewUrl |-> previewUrl, status |-> "idle", errorMsg |-> Absent,
   data |-> NoData]

\* The record handleFileUpload pushes when the preview threw.
NewDocFailed(id, file) ==
  [id |-> id, file |-> file, fileName |-> file.name, fileType |-> file.type,
   previewUrl |-> Null, status |-> "error",
   errorMsg |-> "Could not generate preview", data |-> NoData]

\* Mutant of AppendDocs: the batch is put in front of the list.
AppendDocsPrepend(prev, newDocs) == newDocs \o prev

\* setDocuments(prev => [...prev, ...newDocs])
AppendDocs(prev, newDocs) == prev \o newDocs

\* Mutant of MarkProcessing: the id test is missing.
MarkProcessingAll(prev, id) ==
  [k \in 1..Len(prev) |-> [prev[k] EXCEPT !.status = "processing"]]

\* prev.map(d => d.id === id ? { ...d, status: 'processing' } : d)
MarkProcessing(prev, id) ==
  [k \in 1..Len(prev) |->
     IF prev[k].id = id THEN [prev[k] EXCEPT !.status = "processing"] ELSE prev[k]]

\* Mutant of MarkSuccess: the result is stored but the status is not set.
MarkSuccessDataOnly(prev, id, result) ==
  [k \in 1..Len(prev) |->
     IF prev[k].id = id THEN [prev[k] EXCEPT !.data = result] ELSE prev[k]]

\* Mutant of MarkSuccess: the update is computed from the copy of the list a
\* run took when it started (docsToProcess.map) instead of the latest list.
MarkSuccessStale(prev, id, result) ==
  LET stale == runs[CHOOSE r \in DOMAIN runs : TRUE].docsToProcess
  IN [k \in 1..Len(stale) |->
        IF stale[k].id = id
          THEN [stale[k] EXCEPT !.status = "success", !.data = result]
          ELSE stale[k]]

\* Mutant of MarkSuccess: the extracted document is moved to the end of the list.
MarkSuccessMovedLast(prev, id, result) ==
  SelectSeq(prev, LAMBDA d : d.id # id)
    \o [k \in 1..Len(SelectSeq(prev, LAMBDA d : d.id = id)) |->
          [SelectSeq(prev, LAMBDA d : d.id = id)[k] EXCEPT !.status = "success",
                                                           !.data = result]]

\* prev.map(d => d.id === id ? { ...d, status: 'success', data: result } : d)
MarkSuccess(prev, id, result) ==
  [k \in 1..Len(prev) |->
     IF prev[k].id = id
       THEN [prev[k] EXCEPT !.status = "success", !.data = result]
       ELSE prev[k]]

\* Mutant of MarkError: the message is stored and the status is left as it is.
MarkErrorNoStatus(prev, id) ==
  [k \in 1..Len(prev) |->
     IF prev[k].id = id
       THEN [prev[k] EXCEPT !.errorMsg = "Extraction failed"]
       ELSE prev[k]]

\* Mutant of MarkError: the id test is missing.
MarkErrorAll(prev, id) ==
  [k \in 1..Len(prev) |->
     [prev[k] EXCEPT !.status = "error", !.errorMsg = "Extraction failed"]]

\* Mutant of MarkError: the message of the caught error is stored.
MarkErrorRawMessage(prev, id) ==
  [k \in 1..Len(prev) |->
     IF prev[k].id = id
       THEN [prev[k] EXCEPT !.status = "error",
                            !.errorMsg = IF apiKey THEN "No response from Gemini"
                                                   ELSE "API Key is missing"]
       ELSE prev[k]]

\* prev.map(d => d.id === id ? { ...d, status: 'error', errorMsg: 'Extraction failed' } : d)
MarkError(prev, id) ==
  [k \in 1..Len(prev) |->
     IF prev[k].id = id
       THEN [prev[k] EXCEPT !.status = "error", !.errorMsg = "Extraction failed"]
       ELSE prev[k]]

\* ------------------------------------------------------------- field registry
\* Mutant of AppendField: a key that a field of the list has already is made
\* unique with a trailing underscore.
AppendFieldUniqueKey(prev, id, name) ==
  Append(prev, [id |-> id, name |-> name,
                key |-> IF \E k \in DOMAIN prev : prev[k].key = sanitizeKey(name)
                          THEN sanitizeKey(name) \o <<"_">>
                          ELSE sanitizeKey(name),
                color |-> getNextColor(Len(prev))])

\* Mutant of AppendField: the colour is indexed by the number of fields ever
\* created.
AppendFieldByCreation(prev, id, name) ==
  Append(prev, [id |-> id, name |-> name, key |-> sanitizeKey(name),
                color |-> getNextColor(id - 1)])

\* setFields(prev => [...prev, {id: uuidv4(), name, key: sanitizeKey(name),
\*                              color: getNextColor(prev.length)}])
AppendField(prev, id, name) ==
  Append(prev, [id |-> id, name |-> name, key |-> sanitizeKey(name),
                color |-> getNextColor(Len(prev))])

\* Mutant of FilterOutField: the fields after the removed one go with it.
FilterOutFieldAndLater(prev, id) ==
  IF \E k \in DOMAIN prev : prev[k].id = id
    THEN SubSeq(prev, 1, (CHOOSE k \in DOMAIN prev : prev[k].id = id) - 1)
    ELSE prev

\* setFields(prev => prev.filter(f => f.id !== id))
FilterOutField(prev, id) == SelectSeq(prev, LAMBDA f : f.id # id)

\* Mutant of AddFieldWithin: an added field sends the extracted documents back
\* to idle with their data dropped.
AddFieldWithinReextract(name, adds) ==
  /\ IF TrimsToEmpty(name)
       THEN /\ UNCHANGED <<fieldVars, documents>>
            /\ lastOp' = "addFieldIgnored"
       ELSE /\ nextFieldId <= Len(DefaultFields) + adds
            /\ fields' = AppendField(fields, nextFieldId, name)
            /\ nextFieldId' = nextFieldId + 1
            /\ documents' = [k \in DOMAIN documents |->
                               IF documents[k].status = "success"
                                 THEN [documents[k] EXCEPT !.status = "idle", !.data = NoData]
                                 ELSE documents[k]]
            /\ lastOp' = "addField"
  /\ UNCHANGED <<tieVars, isProcessing, runs, uploads, nextId, apiKey, exported>>

\* Click on Add with `name` typed into the input, in a session in which at
\* most `adds` fields are ever added.
AddFieldWithin(name, adds) ==
  /\ IF TrimsToEmpty(name)
       THEN /\ UNCHANGED fieldVars
            /\ lastOp' = "addFieldIgnored"
       ELSE /\ nextFieldId <= Len(DefaultFields) + adds
            /\ fields' = AppendField(fields, nextFieldId, name)
            /\ nextFieldId' = nextFieldId + 1
            /\ lastOp' = "addField"
  /\ UNCHANGED <<tieVars, docVars, apiKey, exported>>

AddField(name) == AddFieldWithin(name, MaxFieldAdds)

\* Click on the trash icon of the field `id`.
RemoveField(id) ==
  /\ fields' = FilterOutField(fields, id)
  /\ lastOp' = "removeField"
  /\ UNCHANGED <<nextFieldId, tieVars, docVars, apiKey, exported>>

\* ------------------------------------------------------------- runExtraction
\* Mutant of Skipped: the skip of finished documents is missing.
SkippedNever(doc) == FALSE

\* Mutant of Skipped: only idle documents are processed.
SkippedUnlessIdle(doc) == doc.status # "idle"

\* `if (doc.status === 'success') continue;` on the run's own copy of the list.
Skipped(doc) == doc.status = "success"

\* Mutant of NextIndex: the loop bound is off by one (i < length - 1).
RECURSIVE NextIndexShort(_, _)
NextIndexShort(docs, from) ==
  IF from > Len(docs) - 1 THEN Len(docs) + 1
  ELSE IF docs[from].status = "success" THEN NextIndexShort(docs, from + 1)
  ELSE from

\* The loop of runExtraction from index `from`: the first index it stops at to
\* process a document, Len + 1 when it runs off the end.
RECURSIVE NextIndex(_, _)
NextIndex(docs, from) ==
  IF from > Len(docs) THEN Len(docs) + 1
  ELSE IF Skipped(docs[from]) THEN NextIndex(docs, from + 1)
  ELSE from

\* processDocument up to its first await: without an API key it throws before
\* anything is read or sent, otherwise it waits for fileToBase64(doc.file).
ProcessDocumentStart == IF apiKey THEN "reading" ELSE "rejected"

RemoveAt(s, k) == [j \in 1..(Len(s) - 1) |-> IF j < k THEN s[j] ELSE s[j + 1]]

\* Mutant of LoopFrom: at the end of its copy the loop goes on with the idle
\* documents that the list has got since.
LoopFromLive(r, docs, from) ==
  LET run == runs[r]
      j == NextIndex(run.docsToProcess, from)
      late == { k \in DOMAIN docs : k > Len(run.docsToProcess) /\ docs[k].status = "idle" }
  IN IF j > Len(run.docsToProcess)
       THEN IF late = {}
              THEN /\ documents' = docs
                   /\ isProcessing' = FALSE
                   /\ runs' = RemoveAt(runs, r)
              ELSE LET k == CHOOSE k \in late : \A m \in late : k <= m
                   IN /\ documents' = MarkProcessing(docs, docs[k].id)
                      /\ runs' = [runs EXCEPT ![r].docsToProcess = docs, ![r].i = k,
                                               ![r].pc = ProcessDocumentStart]
                      /\ UNCHANGED isProcessing
       ELSE /\ documents' = MarkProcessing(docs, run.docsToProcess[j].id)
            /\ runs' = [runs EXCEPT ![r].i = j, ![r].pc = ProcessDocumentStart]
            /\ UNCHANGED isProcessing

\* The loop body from index `from` on, applied to the list `docs` as updated so
\* far by this segment: either the next document is marked processing and
\* processDocument is called for it, or the loop ends and the flag is reset.
LoopFrom(r, docs, from) ==
  LET run == runs[r]
      j == NextIndex(run.docsToProcess, from)
  IN IF j > Len(run.docsToProcess)
       THEN /\ documents' = docs
            /\ isProcessing' = FALSE
            /\ runs' = RemoveAt(runs, r)
       ELSE /\ documents' = MarkProcessing(docs, run.docsToProcess[j].id)
            /\ runs' = [runs EXCEPT ![r].i = j, ![r].pc = ProcessDocumentStart]
            /\ UNCHANGED isProcessing

\* Mutant of RunEnabled: the button is not disabled while a run is in progress.
RunEnabledWhileBusy == Len(documents) > 0

\* The Run Extraction button is disabled while isProcessing or without documents.
RunEnabled == ~isProcessing /\ Len(documents) > 0

\* Click on Run Extraction: the handler up to its first await. The closure holds
\* the documents and fields of the render the click happened in.
RunExtraction ==
  /\ RunEnabled
  /\ LET j == NextIndex(documents, 1)
     IN IF j > Len(documents)
          THEN /\ UNCHANGED <<documents, runs>>
               /\ isProcessing' = FALSE
          ELSE /\ documents' = MarkProcessing(documents, documents[j].id)
               /\ runs' = Append(runs, [docsToProcess |-> documents,
                                        fields |-> fields, i |-> j,
                                        pc |-> ProcessDocumentStart])
               /\ isProcessing' = TRUE
  /\ lastOp' = "runExtraction"
  /\ UNCHANGED <<fieldVars, tieVars, uploads, nextId, apiKey, exported>>

\* The document the run r is waiting for.
Current(r) == runs[r].docsToProcess[runs[r].i]

\* Mutant of AfterFailure: the loop tries the failed document again.
AfterFailureRetry(r) == runs[r].i

\* Mutant of AfterFailure: the first failure ends the loop.
AfterFailureAbort(r) == Len(runs[r].docsToProcess) + 1

\* Where the for-loop goes on after the catch block: the catch swallows the
\* error, so the loop continues with i++ exactly as after a success.
AfterFailure(r) == runs[r].i + 1

\* processDocument threw "API Key is missing": the catch block, then the loop.
ProcessRejected(r) ==
  /\ runs[r].pc = "rejected"
  /\ LoopFrom(r, MarkError(documents, Current(r).id), AfterFailure(r))
  /\ lastOp' = "extractFailed"
  /\ UNCHANGED <<fieldVars, tieVars, uploads, nextId, apiKey, exported>>

\* fileToBase64 resolved: the request is sent to the remote service.
FileReadOk(r) ==
  /\ runs[r].pc = "reading"
  /\ runs' = [runs EXCEPT ![r].pc = "requested"]
  /\ lastOp' = "requestIssued"
  /\ UNCHANGED <<fieldVars, tieVars, documents, isProcessing, uploads, nextId, apiKey, exported>>

\* fileToBase64 rejected (reader.onerror): the catch block, then the loop.
FileReadFail(r) ==
  /\ runs[r].pc = "reading"
  /\ LoopFrom(r, MarkError(documents, Current(r).id), AfterFailure(r))
  /\ lastOp' = "extractFailed"
  /\ UNCHANGED <<fieldVars, tieVars, uploads, nextId, apiKey, exported>>

\* The remote call returned text that parses as JSON.
ResponseOk(r, result) ==
  /\ runs[r].pc = "requested"
  /\ \E outcome \in GenerateContentOutcomes(runs[r].fields) :
        ~ProcessDocumentThrows(outcome) /\ ProcessDocumentReturns(outcome) = result
  /\ LoopFrom(r, MarkSuccess(documents, Current(r).id, result), runs[r].i + 1)
  /\ lastOp' = "extractSucceeded"
  /\ UNCHANGED <<fieldVars, tieVars, uploads, nextId, apiKey, exported>>

\* The remote call failed, returned no text, or returned text that is not JSON:
\* processDocument rethrows and runExtraction's catch block runs.
ResponseFail(r) ==
  /\ runs[r].pc = "requested"
  /\ \E outcome \in GenerateContentOutcomes(runs[r].fields) :
        ProcessDocumentThrows(outcome)
  /\ LoopFrom(r, MarkError(documents, Current(r).id), AfterFailure(r))
  /\ lastOp' = "extractFailed"
  /\ UNCHANGED <<fieldVars, tieVars, uploads, nextId, apiKey, exported>>

\* ---------------------------------------------------------- handleFileUpload
\* Files chosen by uploads that have not committed yet.
PendingFiles ==
  LET RECURSIVE Sum(_)
      Sum(k) == IF k = 0 THEN 0 ELSE Len(uploads[k].files) + Sum(k - 1)
  IN Sum(Len(uploads))

FileLists(n) == UNION { [1..k -> FilePool] : k \in 1..n }

\* The change event of the file input: the handler up to its first await.
HandleFileUpload(files) ==
  /\ uploads' = Append(uploads, [files |-> files, newDocs |-> << >>])
  /\ lastOp' = "uploadStarted"
  /\ UNCHANGED <<fieldVars, tieVars, documents, isProcessing, runs, nextId, apiKey, exported>>

\* After a push: the for-loop awaits the next preview, or, after the last file,
\* the batch is committed with setDocuments(prev => [...prev, ...newDocs]).
AfterPush(u, newDocs) ==
  IF Len(newDocs) = Len(uploads[u].files)
    THEN /\ documents' = AppendDocs(documents, newDocs)
         /\ uploads' = RemoveAt(uploads, u)
         /\ lastOp' = IF Len(newDocs) > 1 THEN "batchCommitted" ELSE "uploadCommitted"
    ELSE /\ uploads' = [uploads EXCEPT ![u].newDocs = newDocs]
         /\ lastOp' = "previewDone"
         /\ UNCHANGED documents

\* The file whose preview the upload u is waiting for.
Awaited(u) == uploads[u].files[Len(uploads[u].newDocs) + 1]

\* renderPdfToImage(file) resolved with a data URL.
PreviewResolved(u, url) ==
  /\ url \in renderPdfToImage(Awaited(u)) \ {RenderThrows}
  /\ AfterPush(u, Append(uploads[u].newDocs, NewDocOk(nextId, Awaited(u), url)))
  /\ nextId' = nextId + 1
  /\ UNCHANGED <<fieldVars, tieVars, isProcessing, runs, apiKey, exported>>

\* renderPdfToImage(file) threw: the catch block of the for-loop.
PreviewRejected(u) ==
  /\ RenderThrows \in renderPdfToImage(Awaited(u))
  /\ AfterPush(u, Append(uploads[u].newDocs, NewDocFailed(nextId, Awaited(u))))
  /\ nextId' = nextId + 1
  /\ UNCHANGED <<fieldVars, tieVars, isProcessing, runs, apiKey, exported>>

\* ------------------------------------------------------------ reconciliation
\* parseExcelFile resolved: setReferenceData(data).
HandleReferenceUpload(rows) ==
  /\ referenceData' = rows
  /\ lastOp' = "referenceLoaded"
  /\ UNCHANGED <<isReconciling, reconcileResult, recons, alerted, replaced,
                 fieldVars, docVars, apiKey, exported>>

\* The remove button of the reference file: setReferenceData([]).
ClearReference ==
  /\ referenceData' = << >>
  /\ lastOp' = "referenceCleared"
  /\ UNCHANGED <<isReconciling, reconcileResult, recons, alerted, replaced,
                 fieldVars, docVars, apiKey, exported>>

\* documents.filter(d => d.status === 'success')
SuccessDocs(docs) == SelectSeq(docs, LAMBDA d : d.status = "success")

\* d.data[f.key]?.value || null: null for a missing entry and for a value that
\* is undefined, null or the empty string.
ValueOrNull(data, key) ==
  IF key \in DOMAIN data
    THEN IF data[key].value \in {Absent, Null, ""} THEN Null ELSE data[key].value
    ELSE Null

\* The property name fileName, as a character sequence like the field names.
FileNameKey == <<"f", "i", "l", "e", "N", "a", "m", "e">>

\* const row = { fileName: d.fileName }; fields.forEach(f => { row[f.name] = ... })
\* Each assignment overwrites what the row holds under that property name.
ProjectRow(d, fs) ==
  [key \in {FileNameKey} \cup { fs[k].name : k \in DOMAIN fs } |->
     LET writers == { k \in DOMAIN fs : fs[k].name = key }
     IN IF writers = {}
          THEN d.fileName
          ELSE ValueOrNull(d.data, fs[CHOOSE k \in writers : \A m \in writers : m <= k].key)]

\* extractedData of reconcileData: the rows of the success documents.
ExtractedData(docs, fs) ==
  [j \in 1..Len(SuccessDocs(docs)) |-> ProjectRow(SuccessDocs(docs)[j], fs)]

\* parts.filter(part => part.executableCode).map(part => part.executableCode.code)
CodeBlocks(parts) ==
  LET chosen == SelectSeq(parts, LAMBDA part : part.executableCode)
  IN [k \in 1..Len(chosen) |-> chosen[k].code]

\* A string that is put together from pieces is the sequence of its pieces;
\* the empty string is the empty sequence.
BlockBoundary == "\n\n# ---------------------------------------------------------\n# Next Code Block\n# ---------------------------------------------------------\n\n"

\* Mutant of JoinBlocks: the separator follows every fragment.
RECURSIVE JoinBlocksTrailing(_)
JoinBlocksTrailing(blocks) ==
  IF Len(blocks) = 0 THEN << >>
  ELSE <<blocks[1], BlockBoundary>> \o JoinBlocksTrailing(Tail(blocks))

\* codeBlocks.join(separator): the fragments with the block-boundary comment
\* between consecutive ones.
RECURSIVE JoinBlocks(_)
JoinBlocks(blocks) ==
  IF Len(blocks) = 0 THEN << >>
  ELSE IF Len(blocks) = 1 THEN <<blocks[1]>>
  ELSE <<blocks[1], BlockBoundary>> \o JoinBlocks(Tail(blocks))

\* The ReconcileResult reconcileData builds from a response:
\* response.text || "Analysis completed, ..." and the joined code blocks.
ResultOf(response) ==
  [report |-> IF response.text \in {Absent, ""}
                THEN "Analysis completed, but no text explanation was returned."
                ELSE response.text,
   code |-> JoinBlocks(CodeBlocks(response.parts))]

\* useState<ReconcileResult | null>(null): the null of reconcileResult, as a
\* record so that it compares with results.
NullResult == [isNull |-> TRUE]

\* Mutant of setReconcileResult: the setter keeps what is stored when it is
\* given null and appends the code of a new result to the code stored.
setReconcileResultMerging(prev, value) ==
  IF value = NullResult THEN prev
  ELSE IF prev = NullResult THEN value
  ELSE [report |-> value.report, code |-> prev.code \o value.code]

\* Mutant of setReconcileResult: the setter ignores null, so the result of an
\* earlier run stays stored until the next one arrives.
setReconcileResultKeep(prev, value) ==
  IF value = NullResult THEN prev ELSE value

\* setReconcileResult(value): the state setter called with a value, which
\* replaces what is stored.
setReconcileResult(prev, value) == value

\* Mutant of ErrorResult: the catch block stores nothing.
ErrorResultUnset == NullResult

\* The result runReconciliation stores from its catch block.
ErrorResult == [report |-> "An error occurred during analysis.", code |-> << >>]

\* Mutant of Refusal: the check of the reference rows is missing.
RefusalDocsOnly(docs, rows) ==
  IF Len(SuccessDocs(docs)) = 0
    THEN "Please extract data from documents first (Tick phase)."
    ELSE Null

\* The precondition checks of runReconciliation: the message it alerts before
\* it returns, null when it goes on.
Refusal(docs, rows) ==
  IF Len(SuccessDocs(docs)) = 0
    THEN "Please extract data from documents first (Tick phase)."
    ELSE IF Len(rows) = 0
      THEN "Please upload a reference dataset."
      ELSE Null

\* Mutant of ReconcileEnabled: the button is not disabled while a
\* reconciliation is in flight.
ReconcileEnabledWhileBusy == TRUE

\* The Run Reconciliation button is disabled while isReconciling. It is also
\* disabled without a success document or without reference rows; the handler
\* checks these two itself, and the calls of the handler modelled here include
\* those in which its own checks refuse.
ReconcileEnabled == ~isReconciling

\* A call of runReconciliation: the precondition checks of the handler, then
\* the handler up to its await. reconcileData throws at once without an API
\* key, otherwise it sends its request.
RunReconciliation ==
  /\ ReconcileEnabled
  /\ IF Refusal(documents, referenceData) # Null
       THEN /\ alerted' = Refusal(documents, referenceData)
            /\ UNCHANGED <<isReconciling, reconcileResult, recons, replaced>>
            /\ lastOp' = "reconcileRefused"
       ELSE /\ isReconciling' = TRUE
            /\ reconcileResult' = setReconcileResult(reconcileResult, NullResult)
            /\ replaced' = reconcileResult
            /\ recons' = Append(recons,
                 [pc |-> IF apiKey THEN "requested" ELSE "rejected",
                  extractedData |-> IF apiKey THEN ExtractedData(documents, fields)
                                              ELSE << >>])
            /\ lastOp' = "runReconciliation"
            /\ UNCHANGED alerted
  /\ UNCHANGED <<referenceData, fieldVars, docVars, apiKey, exported>>

\* reconcileData resolved.
ReconcileResponseOk(c, response) ==
  /\ recons[c].pc = "requested"
  /\ reconcileResult' = setReconcileResult(reconcileResult, ResultOf(response))
  /\ isReconciling' = FALSE
  /\ recons' = RemoveAt(recons, c)
  /\ lastOp' = "reconcileSucceeded"
  /\ UNCHANGED <<referenceData, alerted, replaced, fieldVars, docVars, apiKey, exported>>

\* reconcileData threw (no API key) or the remote call failed: catch, finally.
ReconcileFail(c) ==
  /\ recons[c].pc \in {"requested", "rejected"}
  /\ reconcileResult' = setReconcileResult(reconcileResult, ErrorResult)
  /\ isReconciling' = FALSE
  /\ recons' = RemoveAt(recons, c)
  /\ lastOp' = "reconcileFailed"
  /\ UNCHANGED <<referenceData, alerted, replaced, fieldVars, docVars, apiKey, exported>>

\* -------------------------------------------------------------- exportToZip
\* The file names of the documents in an export, and their characters.
ExportNames == {"a.pdf", "a_1.pdf", "b", "b.tar.gz"}
Chars(name) ==
  CASE name = "a.pdf" -> <<"a", ".", "p", "d", "f">>
    [] name = "a_1.pdf" -> <<"a", "_", "1", ".", "p", "d", "f">>
    [] name = "b" -> <<"b">>
    [] name = "b.tar.gz" -> <<"b", ".", "t", "a", "r", ".", "g", "z">>
    [] name = "c.txt" -> <<"c", ".", "t", "x", "t">>

\* Mutant of LastIndexOf: the first occurrence is taken (indexOf).
FirstIndexOf(s, c) ==
  IF \E k \in DOMAIN s : s[k] = c
    THEN CHOOSE k \in DOMAIN s : s[k] = c /\ \A m \in 1..(k - 1) : s[m] # c
    ELSE 0

\* name.lastIndexOf(c) on a 1-based sequence: 0 where JavaScript gives -1.
LastIndexOf(s, c) ==
  IF \E k \in DOMAIN s : s[k] = c
    THEN CHOOSE k \in DOMAIN s : s[k] = c /\ \A m \in (k + 1)..Len(s) : s[m] # c
    ELSE 0

\* The decimal digits of a counter, as `${counter}` writes them.
DigitChars == <<"0", "1", "2", "3", "4", "5", "6", "7", "8", "9">>
RECURSIVE DecimalOf(_)
DecimalOf(n) ==
  IF n < 10 THEN <<DigitChars[n + 1]>>
  ELSE DecimalOf(n \div 10) \o <<DigitChars[(n % 10) + 1]>>

\* base and ext of a file name: name.substring(0, lastDotIndex) and
\* name.substring(lastDotIndex), or the whole name and "" without a dot.
BaseOf(name) ==
  IF LastIndexOf(name, ".") # 0 THEN SubSeq(name, 1, LastIndexOf(name, ".") - 1) ELSE name
ExtOf(name) ==
  IF LastIndexOf(name, ".") # 0 THEN SubSeq(name, LastIndexOf(name, "."), Len(name)) ELSE << >>

\* Mutant of WhileUsed: a used name is renamed once and not tested again (if
\* instead of while).
WhileUsedOnce(uniqueName, base, ext, counter, usedFilenames) ==
  IF uniqueName \in usedFilenames
    THEN base \o <<"_">> \o DecimalOf(counter) \o ext
    ELSE uniqueName

\* while (usedFilenames.has(uniqueName)) { uniqueName = `${base}_${counter}${ext}`; counter++ }
RECURSIVE WhileUsed(_, _, _, _, _)
WhileUsed(uniqueName, base, ext, counter, usedFilenames) ==
  IF uniqueName \in usedFilenames
    THEN WhileUsed(base \o <<"_">> \o DecimalOf(counter) \o ext,
                   base, ext, counter + 1, usedFilenames)
    ELSE uniqueName

\* The body of documents.forEach for one document: its unique name.
UniqueName(doc, usedFilenames) ==
  WhileUsed(Chars(doc.fileName), BaseOf(Chars(doc.fileName)), ExtOf(Chars(doc.fileName)),
            1, usedFilenames)

\* documents.forEach(...): the unique names of the first n documents, in order
\* (usedFilenames is the set of their elements).
RECURSIVE ResolvedNames(_, _)
ResolvedNames(docs, n) ==
  IF n = 0 THEN << >>
  ELSE LET before == ResolvedNames(docs, n - 1)
       IN Append(before, UniqueName(docs[n], { before[k] : k \in DOMAIN before }))

\* filenameMap: doc.id -> unique name; a later set for the same id overwrites.
FilenameMap(docs) ==
  [id \in { docs[k].id : k \in DOMAIN docs } |->
     ResolvedNames(docs, Len(docs))[CHOOSE k \in DOMAIN docs :
        docs[k].id = id /\ \A m \in DOMAIN docs : docs[m].id = id => m <= k]]

\* A string literal, and `${f.name} (Coords)`, as character sequences.
FileNameHeader == <<"F", "i", "l", "e", " ", "N", "a", "m", "e">>
StatusHeader == <<"S", "t", "a", "t", "u", "s">>
CoordsOf(name) == name \o <<" ", "(", "C", "o", "o", "r", "d", "s", ")">>

\* Mutant of Headers: each value column is followed by its coordinate column.
RECURSIVE HeadersInterleaved(_)
HeadersInterleaved(fs) ==
  IF Len(fs) = 0 THEN <<FileNameHeader, StatusHeader>>
  ELSE HeadersInterleaved(SubSeq(fs, 1, Len(fs) - 1))
         \o <<fs[Len(fs)].name, CoordsOf(fs[Len(fs)].name)>>

\* const headers = ["File Name", "Status", ...fields.map(f => f.name),
\*                  ...fields.map(f => `${f.name} (Coords)`)]
Headers(fs) ==
  <<FileNameHeader, StatusHeader>>
    \o [k \in 1..Len(fs) |-> fs[k].name]
    \o [k \in 1..Len(fs) |-> CoordsOf(fs[k].name)]

\* json_to_sheet(dataRows, { header: headers }): the columns of the sheet are
\* the entries of header in their order; every property of a data row is one
\* of them, so no column is added after them.
SheetColumns(header) == header

\* JSON.stringify of an array of integers: [a,b,c,d] without spaces.
RECURSIVE JoinNumbers(_)
JoinNumbers(box) ==
  IF Len(box) = 0 THEN << >>
  ELSE IF Len(box) = 1 THEN DecimalOf(box[1])
  ELSE JoinNumbers(SubSeq(box, 1, Len(box) - 1)) \o <<",">> \o DecimalOf(box[Len(box)])

JsonStringify(box) == <<"[">> \o JoinNumbers(box) \o <<"]">>

\* extracted?.value || '': the empty string for a missing entry and for a
\* value that is undefined, null or the empty string.
ValueOrEmpty(data, key) ==
  IF key \in DOMAIN data
    THEN IF data[key].value \in {Absent, Null, ""} THEN "" ELSE data[key].value
    ELSE ""

\* extracted?.box_2d ? JSON.stringify(extracted.box_2d) : '' (an array is
\* truthy whatever it holds); the text is a character sequence.
CoordsOrEmpty(data, key) ==
  IF key \in DOMAIN data /\ "box_2d" \in DOMAIN data[key]
    THEN JsonStringify(data[key].box_2d)
    ELSE << >>

\* row[name] = cell: the property is added, or overwritten if the row has it.
SetCell(row, name, cell) ==
  [c \in DOMAIN row \cup {name} |-> IF c = name THEN cell ELSE row[c]]

\* One element of dataRows after the first n fields were written into it:
\* row["File Name"], row["Status"], then per field the value and the coordinates.
RECURSIVE RowAfter(_, _, _)
RowAfter(doc, fs, n) ==
  IF n = 0
    THEN SetCell(SetCell(<< >>, FileNameHeader, doc.fileName), StatusHeader, doc.status)
    ELSE SetCell(SetCell(RowAfter(doc, fs, n - 1),
                         fs[n].name, ValueOrEmpty(doc.data, fs[n].key)),
                 CoordsOf(fs[n].name), CoordsOrEmpty(doc.data, fs[n].key))

\* const dataRows = documents.map(doc => { ... return row; })
DataRows(docs, fs) == [k \in 1..Len(docs) |-> RowAfter(docs[k], fs, Len(fs))]

\* markdown.split(c): the pieces between the occurrences of c.
RECURSIVE Split(_, _)
Split(s, c) ==
  LET hits == { k \in DOMAIN s : s[k] = c }
  IN IF hits = {} THEN <<s>>
     ELSE LET first == CHOOSE k \in hits : \A m \in hits : k <= m
          IN <<SubSeq(s, 1, first - 1)>> \o Split(SubSeq(s, first + 1, Len(s)), c)

\* line.trim()
Trim(s) ==
  LET keep == { k \in DOMAIN s : s[k] \notin WhiteSpace }
  IN IF keep = {} THEN << >>
     ELSE SubSeq(s, CHOOSE k \in keep : \A m \in keep : k <= m,
                    CHOOSE k \in keep : \A m \in keep : m <= k)

\* line.startsWith('|') && line.endsWith('|')
IsPipeLine(line) == Len(line) > 0 /\ line[1] = "|" /\ line[Len(line)] = "|"

\* line.replace(/\|/g, '').trim().match(/^-+$/)
IsSeparatorLine(line) ==
  LET rest == Trim(SelectSeq(line, LAMBDA ch : ch # "|"))
  IN Len(rest) > 0 /\ \A k \in DOMAIN rest : rest[k] = "-"

\* line.split('|').slice(1, -1).map(c => c.trim())
Cells(line) ==
  LET pieces == Split(line, "|")
  IN [k \in 1..(Len(pieces) - 2) |-> Trim(pieces[k + 1])]

\* The for loop of parseMarkdownTable from line i on: a separator line is
\* skipped, a pipe line is pushed and starts the table, an empty line after
\* the start breaks, any other line is passed over.
RECURSIVE ParseFrom(_, _, _, _)
ParseFrom(lines, i, data, tableStarted) ==
  IF i > Len(lines) THEN data
  ELSE LET line == Trim(lines[i])
       IN IF IsPipeLine(line)
            THEN IF IsSeparatorLine(line)
                   THEN ParseFrom(lines, i + 1, data, tableStarted)
                   ELSE ParseFrom(lines, i + 1, Append(data, Cells(line)), TRUE)
            ELSE IF tableStarted /\ line = << >>
                   THEN data
                   ELSE ParseFrom(lines, i + 1, data, tableStarted)

\* The null of parseMarkdownTable, and its result: data if it has a row.
NullTable == [isNull |-> TRUE]
parseMarkdownTable(markdown) ==
  LET data == ParseFrom(Split(markdown, "\n"), 1, << >>, FALSE)
  IN IF Len(data) > 0 THEN [isNull |-> FALSE, data |-> data] ELSE NullTable

\* Mutant of TieSheets: the code sheet is appended before the report sheet.
TieSheetsCodeFirst(result) ==
  IF result = NullResult THEN << >>
  ELSE LET parsedTable == parseMarkdownTable(result.report)
       IN (IF parsedTable # NullTable
             THEN << [name |-> "Joined Data Details", aoa |-> parsedTable.data] >>
             ELSE << >>)
          \o << [name |-> "Python Code",
                  aoa |-> << <<"Executed Python Code">>, <<result.code>> >>],
                [name |-> "Analysis Report",
                  aoa |-> << <<"Analysis Report">>, <<result.report>> >>] >>

\* if (reconcileResult) { ... }: the sheets appended after the primary one,
\* each with the array of arrays it is made from.
TieSheets(result) ==
  IF result = NullResult THEN << >>
  ELSE LET parsedTable == parseMarkdownTable(result.report)
       IN (IF parsedTable # NullTable
             THEN << [name |-> "Joined Data Details", aoa |-> parsedTable.data] >>
             ELSE << >>)
          \o << [name |-> "Analysis Report",
                  aoa |-> << <<"Analysis Report">>, <<result.report>> >>],
                [name |-> "Python Code",
                  aoa |-> << <<"Executed Python Code">>, <<result.code>> >>] >>

\* The workbook: the primary sheet made from dataRows under headers, then the
\* sheets of the reconciliation.
Workbook(docs, fs, result) ==
  << [name |-> "Source Data (Tick)",
      aoa |-> <<SheetColumns(Headers(fs))>> \o DataRows(docs, fs)] >>
    \o TieSheets(result)

\* The null of `exported`, as a record so that it compares with packages.
NullExport == [isNull |-> TRUE]

\* Click on Export: exportToZip(fields, documents, reconcileResult). Without
\* the libraries it alerts and returns; otherwise it adds every document under
\* its unique name to the folder and builds the sheet.
HandleExport(loaded) ==
  /\ IF ~loaded
       THEN /\ alerted' = "Export libraries are still loading. Please try again in a moment."
            /\ lastOp' = "exportRefused"
            /\ UNCHANGED exported
       ELSE /\ exported' = [files |-> ResolvedNames(documents, Len(documents)),
                            filenameMap |-> FilenameMap(documents),
                            columns |-> SheetColumns(Headers(fields)),
                            rows |-> DataRows(documents, fields),
                            sheets |-> Workbook(documents, fields, reconcileResult)]
            /\ lastOp' = "exported"
            /\ UNCHANGED alerted
  /\ UNCHANGED <<referenceData, isReconciling, reconcileResult, recons, replaced,
                 fieldVars, docVars, apiKey>>

\* ------------------------------------------------------------ specification
Init ==
  /\ fields = DefaultFields
  /\ nextFieldId = Len(DefaultFields) + 1
  /\ referenceData = << >>
  /\ isReconciling = FALSE
  /\ reconcileResult = NullResult
  /\ recons = << >>
  /\ alerted = Null
  /\ replaced = NullResult
  /\ documents = << >>
  /\ isProcessing = FALSE
  /\ runs = << >>
  /\ uploads = << >>
  /\ nextId = 1
  /\ apiKey \in BOOLEAN
  /\ exported = NullExport
  /\ lastOp = "init"
  /\ steps = 0

\* A segment of a step-bounded session, and a segment that is not counted.
Counted(A) == steps < MaxSteps /\ A /\ steps' = steps + 1
Free(A) == A /\ UNCHANGED steps

\* The whole app: the field sidebar, the Tick tab (uploads and extraction runs)
\* and the Tie tab (reference dataset and reconciliation runs), interleaved.
Next ==
  \/ \E name \in NewFieldNames : Counted(AddField(name))
  \/ \E id \in 1..(nextFieldId - 1) : Counted(RemoveField(id))
  \/ Counted(RunExtraction)
  \/ \E r \in 1..Len(runs) : Counted(ProcessRejected(r))
  \/ \E r \in 1..Len(runs) : Counted(FileReadOk(r))
  \/ \E r \in 1..Len(runs) : Counted(FileReadFail(r))
  \/ \E r \in 1..Len(runs) : \E result \in Results(runs[r].fields) :
        Counted(ResponseOk(r, result))
  \/ \E r \in 1..Len(runs) : Counted(ResponseFail(r))
  \/ \E files \in FileLists(MaxDocs - Len(documents) - PendingFiles) :
        Counted(HandleFileUpload(files))
  \/ \E u \in 1..Len(uploads) :
        \E url \in renderPdfToImage(Awaited(u)) \ {RenderThrows} :
           Counted(PreviewResolved(u, url))
  \/ \E u \in 1..Len(uploads) : Counted(PreviewRejected(u))
  \/ \E rows \in ReferenceSheets : Counted(HandleReferenceUpload(rows))
  \/ Counted(ClearReference)
  \/ Counted(RunReconciliation)
  \/ \E c \in 1..Len(recons) : \E response \in ReconcileResponses :
        Counted(ReconcileResponseOk(c, response))
  \/ \E c \in 1..Len(recons) : Counted(ReconcileFail(c))

Spec == Init /\ [][Next]_vars

\* The Tick tab alone, with the field list and the Tie tab left as they start:
\* every interleaving of uploads and extraction runs, without a step bound.
NextTick ==
  \/ Free(RunExtraction)
  \/ \E r \in 1..Len(runs) : Free(ProcessRejected(r))
  \/ \E r \in 1..Len(runs) : Free(FileReadOk(r))
  \/ \E r \in 1..Len(runs) : Free(FileReadFail(r))
  \/ \E r \in 1..Len(runs) : \E result \in Results(runs[r].fields) :
        Free(ResponseOk(r, result))
  \/ \E r \in 1..Len(runs) : Free(ResponseFail(r))
  \/ \E files \in FileLists(MaxDocs - Len(documents) - PendingFiles) :
        Free(HandleFileUpload(files))
  \/ \E u \in 1..Len(uploads) :
        \E url \in renderPdfToImage(Awaited(u)) \ {RenderThrows} :
           Free(PreviewResolved(u, url))
  \/ \E u \in 1..Len(uploads) : Free(PreviewRejected(u))

SpecTick == Init /\ [][NextTick]_vars

\* The Tick tab when every promise a run awaits settles: the microtask of a
\* rejected processDocument runs, the FileReader finishes or fails, and the
\* remote call returns or fails. Nothing is assumed of the user's clicks.
SpecTickFair ==
  /\ Init
  /\ [][NextTick]_vars
  /\ WF_vars(\E r \in 1..Len(runs) : Free(ProcessRejected(r)))
  /\ WF_vars(\E r \in 1..Len(runs) : Free(FileReadOk(r)) \/ Free(FileReadFail(r)))
  /\ WF_vars(\E r \in 1..Len(runs) :
               \/ \E result \in Results(runs[r].fields) : Free(ResponseOk(r, result))
               \/ Free(ResponseFail(r)))

\* The Tick and Tie tabs with the field list left as it starts: uploads,
\* extraction runs, the reference dataset and reconciliation runs, without a
\* step bound.
NextTie ==
  \/ Free(RunExtraction)
  \/ \E r \in 1..Len(runs) : Free(ProcessRejected(r))
  \/ \E r \in 1..Len(runs) : Free(FileReadOk(r))
  \/ \E r \in 1..Len(runs) : Free(FileReadFail(r))
  \/ \E r \in 1..Len(runs) : \E result \in Results(runs[r].fields) :
        Free(ResponseOk(r, result))
  \/ \E r \in 1..Len(runs) : Free(ResponseFail(r))
  \/ \E files \in FileLists(MaxDocs - Len(documents) - PendingFiles) :
        Free(HandleFileUpload(files))
  \/ \E u \in 1..Len(uploads) :
        \E url \in renderPdfToImage(Awaited(u)) \ {RenderThrows} :
           Free(PreviewResolved(u, url))
  \/ \E u \in 1..Len(uploads) : Free(PreviewRejected(u))
  \/ \E rows \in ReferenceSheets : Free(HandleReferenceUpload(rows))
  \/ Free(ClearReference)
  \/ Free(RunReconciliation)
  \/ \E c \in 1..Len(recons) : \E response \in ReconcileResponses :
        Free(ReconcileResponseOk(c, response))
  \/ \E c \in 1..Len(recons) : Free(ReconcileFail(c))

SpecTie == Init /\ [][NextTie]_vars

\* The export alone, from the lists a session can leave behind: up to
\* MaxExportDocs documents named from ExportNames, each idle or extracted with
\* the default fields (the service found no invoice date and gave no box for
\* the total), and a field list as it is at the start, after the addition of
\* PO # or of Status, after a removal, or empty.
ExportDoc(id, name, done) ==
  LET doc == NewDocOk(id, [name |-> name, type |-> "application/pdf"],
                      "data:image/jpeg;base64")
      result == [k \in SchemaKeys(DefaultFields) |->
                   IF k = DefaultFields[2].key THEN NotFoundValue
                   ELSE IF k = DefaultFields[3].key THEN NoBoxValue
                   ELSE ExtractedValue]
  IN IF done THEN MarkSuccess(<<doc>>, id, result)[1] ELSE doc

ExportFieldLists ==
  { DefaultFields,
    AppendField(DefaultFields, Len(DefaultFields) + 1, <<"P", "O", " ", "#">>),
    AppendField(DefaultFields, Len(DefaultFields) + 1, StatusHeader),
    FilterOutField(DefaultFields, 2),
    << >> }

InitExport ==
  /\ \E n \in 0..MaxExportDocs :
       \E pick \in [1..n -> ExportNames \X BOOLEAN] :
         documents = [k \in 1..n |-> ExportDoc(k, pick[k][1], pick[k][2])]
  /\ nextId = Len(documents) + 1
  /\ fields \in ExportFieldLists
  /\ nextFieldId = Len(DefaultFields) + 2
  /\ referenceData = << >>
  /\ isReconciling = FALSE
  /\ reconcileResult = NullResult
  /\ recons = << >>
  /\ alerted = Null
  /\ replaced = NullResult
  /\ isProcessing = FALSE
  /\ runs = << >>
  /\ uploads = << >>
  /\ apiKey = TRUE
  /\ exported = NullExport
  /\ lastOp = "init"
  /\ steps = 0

\* The export of a reconciliation: one document, the default fields, and no
\* result, a result without code, or a result with code whose report is up
\* to MaxReportLines lines taken from ReportLines and joined by line feeds.
\* The report is taken apart by the export, so here it is a character sequence.
ReportLines ==
  { <<"|", "a", "|", "b", "|">>,
    <<" ", "|", " ", "c", " ", "|", "d", "|">>,
    <<"|", "-", "-", "|", "-", "|">>,
    <<"|", " ", "-", "-", " ", "|", " ", "-", " ", "|">>,
    << >>,
    <<"O", "K">> }

RECURSIVE JoinLines(_)
JoinLines(lines) ==
  IF Len(lines) = 0 THEN << >>
  ELSE IF Len(lines) = 1 THEN lines[1]
  ELSE JoinLines(SubSeq(lines, 1, Len(lines) - 1)) \o <<"\n">> \o lines[Len(lines)]

Reports ==
  { JoinLines(lines) : lines \in UNION { [1..n -> ReportLines] : n \in 0..MaxReportLines } }

InitReport ==
  /\ documents = <<ExportDoc(1, "a.pdf", TRUE)>>
  /\ nextId = Len(documents) + 1
  /\ fields = DefaultFields
  /\ nextFieldId = Len(DefaultFields) + 1
  /\ referenceData = << >>
  /\ isReconciling = FALSE
  /\ reconcileResult \in {NullResult, [report |-> <<"O", "K">>, code |-> << >>]}
                           \cup { [report |-> r, code |-> <<"print(1)">>] : r \in Reports }
  /\ recons = << >>
  /\ alerted = Null
  /\ replaced = NullResult
  /\ isProcessing = FALSE
  /\ runs = << >>
  /\ uploads = << >>
  /\ apiKey = TRUE
  /\ exported = NullExport
  /\ lastOp = "init"
  /\ steps = 0

NextExport == \E loaded \in BOOLEAN : Free(HandleExport(loaded))

SpecExport == InitExport /\ [][NextExport]_vars

SpecReport == InitReport /\ [][NextExport]_vars

\* The field sidebar alone, with what a user may type into the input: every
\* text of up to MaxNameLen characters over an upper-case letter, a digit and
\* a blank, the name of a field that exists already, a name with another
\* sign, and a name that is a key already.
NameAlphabet == {"A", "7", " "}
TypedNames ==
  UNION { [1..n -> NameAlphabet] : n \in 0..MaxNameLen }
    \cup { DefaultFields[1].name, <<"P", "O", " ", "#">>, <<"z", "_", "9">> }

NextNames ==
  \/ \E name \in TypedNames : Free(AddField(name))
  \/ \E id \in 1..(nextFieldId - 1) : Free(RemoveField(id))

SpecNames == Init /\ [][NextNames]_vars

\* The field sidebar of a session in which fields were added until every
\* colour of the palette is in use, or all but one, and which then adds up to
\* MaxFieldAdds more.
FullPalette == Len(COLORS) - Len(DefaultFields)
PaletteNames == { <<"P", "O", " ", "#">>, <<" ", " ">> }

RECURSIVE FieldsAfter(_)
FieldsAfter(n) ==
  IF n = 0 THEN DefaultFields
  ELSE AppendField(FieldsAfter(n - 1), Len(DefaultFields) + n, <<"P", "O", " ", "#">>)

InitPalette ==
  /\ \E n \in {FullPalette - 1, FullPalette} :
       /\ fields = FieldsAfter(n)
       /\ nextFieldId = Len(DefaultFields) + n + 1
  /\ referenceData = << >>
  /\ isReconciling = FALSE
  /\ reconcileResult = NullResult
  /\ recons = << >>
  /\ alerted = Null
  /\ replaced = NullResult
  /\ documents = << >>
  /\ isProcessing = FALSE
  /\ runs = << >>
  /\ uploads = << >>
  /\ nextId = 1
  /\ apiKey = TRUE
  /\ exported = NullExport
  /\ lastOp = "init"
  /\ steps = 0

NextPalette ==
  \/ \E name \in PaletteNames : Free(AddFieldWithin(name, FullPalette + MaxFieldAdds))
  \/ \E id \in 1..(nextFieldId - 1) : Free(RemoveField(id))

SpecPalette == InitPalette /\ [][NextPalette]_vars

\* One uploaded document through field additions, extraction runs and
\* exports: the names typed are one whose key a default field has already,
\* one with a new key, and one whose key is that new key again.
KeyNames ==
  { <<"I", "N", "V", "O", "I", "C", "E", "_", "N", "U", "M", "B", "E", "R">>,
    <<"P", "O", " ", "#">>,
    <<"p", "o", "-", "-">> }

InitKeys ==
  /\ fields = DefaultFields
  /\ nextFieldId = Len(DefaultFields) + 1
  /\ referenceData = << >>
  /\ isReconciling = FALSE
  /\ reconcileResult = NullResult
  /\ recons = << >>
  /\ alerted = Null
  /\ replaced = NullResult
  /\ documents = <<NewDocOk(1, [name |-> "a.pdf", type |-> "application/pdf"],
                            "data:image/jpeg;base64")>>
  /\ isProcessing = FALSE
  /\ runs = << >>
  /\ uploads = << >>
  /\ nextId = 2
  /\ apiKey \in BOOLEAN
  /\ exported = NullExport
  /\ lastOp = "init"
  /\ steps = 0

NextKeys ==
  \/ \E name \in KeyNames : Free(AddField(name))
  \/ Free(RunExtraction)
  \/ \E r \in 1..Len(runs) : Free(ProcessRejected(r))
  \/ \E r \in 1..Len(runs) : Free(FileReadOk(r))
  \/ \E r \in 1..Len(runs) : Free(FileReadFail(r))
  \/ \E r \in 1..Len(runs) : \E result \in Results(runs[r].fields) :
        Free(ResponseOk(r, result))
  \/ \E r \in 1..Len(runs) : Free(ResponseFail(r))
  \/ \E loaded \in BOOLEAN : Free(HandleExport(loaded))

SpecKeys == InitKeys /\ [][NextKeys]_vars

\* ------------------------------------------------------------------ claims
Terminal == {"success", "error"}
RunSteps == {"runExtraction", "extractFailed", "extractSucceeded"}
Commits == {"uploadCommitted", "batchCommitted"}

\* The record with the given id in a document list.
DocOf(docs, id) == docs[CHOOSE k \in DOMAIN docs : docs[k].id = id]
HasDoc(docs, id) == \E k \in DOMAIN docs : docs[k].id = id

\* C1: no remote extraction request is ever outstanding for a document that was
\* success when its run started, and a run started when every document is
\* success sends nothing, changes no document and ends at once.
C1_NoCallForSuccess ==
  [][ /\ \A r \in DOMAIN runs' :
           runs'[r].pc = "requested"
             => /\ runs'[r].docsToProcess[runs'[r].i].status # "success"
                /\ HasDoc(documents', runs'[r].docsToProcess[runs'[r].i].id)
                /\ DocOf(documents', runs'[r].docsToProcess[runs'[r].i].id).status
                     = "processing"
      /\ ( /\ lastOp' = "runExtraction"
           /\ \A k \in DOMAIN documents : documents[k].status = "success" )
         => /\ documents' = documents
            /\ runs' = runs
            /\ ~isProcessing' ]_vars

\* C1 witness: a run was started on a list whose documents are all success.
C1_Witness ==
  /\ lastOp = "runExtraction"
  /\ Len(documents) > 0
  /\ \A k \in DOMAIN documents : documents[k].status = "success"
  /\ runs = << >>
  /\ ~isProcessing

StatusChanges ==
  { <<"idle", "processing">>, <<"error", "processing">>,
    <<"processing", "success">>, <<"processing", "error">> }

\* C2: every status change of a document is idle->processing,
\* error->processing, processing->success or processing->error, and a document
\* that is success keeps its status and data in every later step of a session
\* (uploads, extraction runs, field edits, reconciliations).
C2_StatusMachine ==
  [][ \A k \in DOMAIN documents :
        \E j \in DOMAIN documents' :
          /\ documents'[j].id = documents[k].id
          /\ documents'[j].status # documents[k].status
               => <<documents[k].status, documents'[j].status>> \in StatusChanges
          /\ documents[k].status = "success"
               => /\ documents'[j].status = "success"
                  /\ documents'[j].data = documents[k].data ]_vars

\* C2 witness: a later run has re-entered processing for a document that failed
\* before, while a document that is success has been left alone.
C2_Witness ==
  /\ lastOp = "runExtraction"
  /\ \E k \in DOMAIN documents :
        documents[k].status = "success" /\ documents[k].data # NoData
  /\ \E k \in DOMAIN documents :
        /\ documents[k].status = "processing"
        /\ documents[k].errorMsg = "Extraction failed"

\* C3: at most one extraction request is outstanding; in a run, every document
\* before the current one that was not skipped is success or error, the
\* current one is processing, and every later one is still as the run found it.
C3_Sequential ==
  /\ Cardinality({ r \in DOMAIN runs : runs[r].pc = "requested" }) <= 1
  /\ \A r \in DOMAIN runs :
       \A k \in DOMAIN runs[r].docsToProcess :
         LET was == runs[r].docsToProcess[k]
             now == DocOf(documents, was.id)
         IN /\ HasDoc(documents, was.id)
            /\ (k < runs[r].i /\ was.status # "success") => now.status \in Terminal
            /\ k = runs[r].i => now.status = "processing"
            /\ (k > runs[r].i \/ was.status = "success") => now = was

\* C3 witness: the request for the second document of a run is outstanding
\* after the first one reached a terminal status.
C3_Witness ==
  \E r \in DOMAIN runs :
    /\ runs[r].pc = "requested"
    /\ runs[r].i = 2
    /\ runs[r].docsToProcess[1].status # "success"
    /\ DocOf(documents, runs[r].docsToProcess[1].id).status \in Terminal

\* The first index after `from` of a document the run does not skip, 0 if none.
LaterUnfinished(docs, from) ==
  LET later == { k \in DOMAIN docs : k > from /\ docs[k].status # "success" }
  IN IF later = {} THEN 0 ELSE CHOOSE k \in later : \A m \in later : k <= m

\* C4: when the extraction of a document fails, the run goes on with the next
\* document of its list that is not success: that document is marked
\* processing and processDocument is called for it; the run ends only when
\* there is no such document.
C4_FailureContinues ==
  [][ (lastOp' = "extractFailed" /\ Len(runs) = 1)
        => LET run == runs[1]
               j == LaterUnfinished(run.docsToProcess, run.i)
           IN /\ DocOf(documents', run.docsToProcess[run.i].id).status = "error"
              /\ IF j = 0
                   THEN runs' = << >> /\ ~isProcessing'
                   ELSE /\ Len(runs') = 1
                        /\ isProcessing'
                        /\ runs'[1].i = j
                        /\ runs'[1].pc \in {"reading", "rejected"}
                        /\ DocOf(documents', run.docsToProcess[j].id).status
                             = "processing" ]_vars

\* C4 witness: the first document of a run failed and the run is processing
\* the second.
C4_Witness ==
  /\ lastOp = "extractFailed"
  /\ Len(runs) = 1
  /\ runs[1].i = 2
  /\ DocOf(documents, runs[1].docsToProcess[1].id).errorMsg = "Extraction failed"
  /\ DocOf(documents, runs[1].docsToProcess[2].id).status = "processing"

\* The documents the runs in flight are waiting for.
CurrentIds(rs) == { rs[r].docsToProcess[rs[r].i].id : r \in DOMAIN rs }

\* C5: a segment of an extraction run keeps the length and order of the list,
\* keeps id, file, fileName, fileType and previewUrl of every document, and
\* changes no record but those of the documents it applies a transition to
\* (the one it was waiting for and the one it goes on with).
C5_TransitionFrame ==
  [][ lastOp' \in RunSteps
        => /\ Len(documents') = Len(documents)
           /\ \A k \in DOMAIN documents :
                /\ documents'[k].id = documents[k].id
                /\ documents'[k].file = documents[k].file
                /\ documents'[k].fileName = documents[k].fileName
                /\ documents'[k].fileType = documents[k].fileType
                /\ documents'[k].previewUrl = documents[k].previewUrl
                /\ documents'[k] # documents[k]
                     => documents[k].id \in CurrentIds(runs) \cup CurrentIds(runs') ]_vars

\* C5 witness: a document failed in a list that holds a document that is
\* success.
C5_Witness ==
  /\ lastOp = "extractFailed"
  /\ \E k \in DOMAIN documents : documents[k].errorMsg = "Extraction failed"
  /\ \E k \in DOMAIN documents : documents[k].status = "success"

\* C6: when a run sets isProcessing back to false, every document of the list
\* the run started with is success or error.
C6_TerminalAtFinish ==
  [][ /\ (isProcessing /\ ~isProcessing')
        => \A r \in DOMAIN runs :
             \A k \in DOMAIN runs[r].docsToProcess :
               DocOf(documents', runs[r].docsToProcess[k].id).status \in Terminal
      /\ (lastOp' = "runExtraction" /\ ~isProcessing')
        => \A k \in DOMAIN documents : documents'[k].status \in Terminal ]_vars

\* C6 witness: a run over two documents has finished, one success, one error.
C6_Witness ==
  /\ lastOp = "extractFailed"
  /\ ~isProcessing
  /\ runs = << >>
  /\ \E k \in DOMAIN documents : documents[k].status = "success"
  /\ \E k \in DOMAIN documents : documents[k].errorMsg = "Extraction failed"

\* C7: a document has an errorMsg only while its status is error.
C7_ErrorMsgOnlyOnError ==
  \A k \in DOMAIN documents :
    documents[k].status # "error" => documents[k].errorMsg = Absent

\* C8: a document that is idle, processing or error has empty data, and the
\* data of a document changes only in its step from processing to success.
C8_DataOnlyOnSuccess ==
  [][ /\ \A k \in DOMAIN documents' :
           documents'[k].status # "success" => documents'[k].data = NoData
      /\ \A k \in DOMAIN documents :
           \A j \in DOMAIN documents' :
             ( /\ documents'[j].id = documents[k].id
               /\ documents'[j].data # documents[k].data )
             => /\ documents[k].status = "processing"
                /\ documents'[j].status = "success" ]_vars

\* C8 witness: a document with extracted data next to a failed one without.
C8_Witness ==
  /\ \E k \in DOMAIN documents :
        documents[k].status = "success" /\ documents[k].data # NoData
  /\ \E k \in DOMAIN documents :
        documents[k].status = "error" /\ documents[k].data = NoData

\* C9: no writer drops what another has written: the commit of an upload keeps
\* every record of the list as it is and adds its documents, also during a run;
\* a transition of a run keeps every document of the list, also those uploaded
\* since the run started, and the status it writes is in the resulting list.
C9_NoLostUpdate ==
  [][ /\ lastOp' \in Commits
        => /\ Len(documents') > Len(documents)
           /\ SubSeq(documents', 1, Len(documents)) = documents
      /\ lastOp' \in RunSteps
        => /\ \A k \in DOMAIN documents : HasDoc(documents', documents[k].id)
           /\ Len(documents') = Len(documents)
      /\ (lastOp' = "extractSucceeded" /\ Len(runs) = 1)
        => /\ HasDoc(documents', runs[1].docsToProcess[runs[1].i].id)
           /\ DocOf(documents', runs[1].docsToProcess[runs[1].i].id).status = "success"
      /\ (lastOp' = "extractFailed" /\ Len(runs) = 1)
        => /\ HasDoc(documents', runs[1].docsToProcess[runs[1].i].id)
           /\ DocOf(documents', runs[1].docsToProcess[runs[1].i].id).status = "error" ]_vars

\* C9 witness: a run committed a success after an upload was committed during
\* the run: the list holds the uploaded document, which the run never handled.
C9_Witness ==
  /\ lastOp = "extractSucceeded"
  /\ ~isProcessing
  /\ \E k \in DOMAIN documents : documents[k].status = "success"
  /\ \E k \in DOMAIN documents : documents[k].status = "idle"

\* C10: the commit of an upload appends one document per file of the batch, in
\* file order, after the documents already there: idle with its preview and no
\* errorMsg, or error with the preview message and a null preview; data is
\* empty, and an unsupported file is added as error like any other failure.
C10_UploadAppends ==
  [][ lastOp' \in Commits
        => \E u \in DOMAIN uploads :
             LET files == uploads[u].files
                 n == Len(documents)
             IN /\ Len(documents') = n + Len(files)
                /\ SubSeq(documents', 1, n) = documents
                /\ \A k \in DOMAIN files :
                     LET d == documents'[n + k]
                     IN /\ d.file = files[k]
                        /\ d.fileName = files[k].name
                        /\ d.fileType = files[k].type
                        /\ d.data = NoData
                        /\ ~HasDoc(documents, d.id)
                        /\ \/ /\ d.previewUrl \in renderPdfToImage(files[k]) \ {RenderThrows}
                              /\ d.status = "idle"
                              /\ d.errorMsg = Absent
                           \/ /\ d.previewUrl = Null
                              /\ d.status = "error"
                              /\ d.errorMsg = "Could not generate preview" ]_vars

\* C10 witness: a batch of two files was committed, the first with a failed
\* preview, the second with a preview.
C10_Witness ==
  /\ lastOp = "batchCommitted"
  /\ Len(documents) = 2
  /\ documents[1].status = "error" /\ documents[1].previewUrl = Null
  /\ documents[2].status = "idle" /\ documents[2].previewUrl # Null

\* C11: whenever the extraction of a document fails (missing API key, file
\* read error, rejected call, empty response text, text that is not JSON), the
\* document goes from processing to error with the message 'Extraction
\* failed' and its data as it was, and runExtraction carries on: it goes on
\* with a later document or ends with isProcessing reset.
C11_FailureIsGeneric ==
  [][ (lastOp' = "extractFailed" /\ Len(runs) = 1)
        => LET id == runs[1].docsToProcess[runs[1].i].id
           IN /\ DocOf(documents, id).status = "processing"
              /\ DocOf(documents', id).status = "error"
              /\ DocOf(documents', id).errorMsg = "Extraction failed"
              /\ DocOf(documents', id).data = DocOf(documents, id).data
              /\ \/ runs' = << >> /\ ~isProcessing'
                 \/ /\ Len(runs') = 1 /\ isProcessing'
                    /\ runs'[1].i > runs[1].i
                    /\ runs'[1].docsToProcess = runs[1].docsToProcess ]_vars

\* C11 witness: with an API key set, the extraction of a document whose
\* preview had been rendered failed after its request was sent or its file
\* could not be read.
C11_Witness ==
  /\ lastOp = "extractFailed"
  /\ apiKey
  /\ \E k \in DOMAIN documents :
        /\ documents[k].status = "error"
        /\ documents[k].errorMsg = "Extraction failed"
        /\ documents[k].previewUrl # Null

\* A document as handleFileUpload adds it when its preview failed.
PreviewFailed(doc) ==
  /\ doc.previewUrl = Null
  /\ doc.status = "error"
  /\ doc.errorMsg = "Could not generate preview"

\* The document has been through an extraction: success, or error with the
\* message of runExtraction.
Extracted(doc) ==
  \/ doc.status = "success"
  \/ doc.status = "error" /\ doc.errorMsg = "Extraction failed"

\* C12: a document added as error because its preview failed is extracted by
\* the next run like an idle one: a run started on a list that holds one is
\* not a no-op, the run marks it processing and calls processDocument for it
\* when its turn comes, and once the run is past it, and when the run ends,
\* it is success or error with the message of the extraction.
C12_PreviewFailureNotBlocking ==
  [][ /\ \A r \in DOMAIN runs' :
           \A k \in DOMAIN runs'[r].docsToProcess :
             PreviewFailed(runs'[r].docsToProcess[k])
               => LET now == DocOf(documents', runs'[r].docsToProcess[k].id)
                  IN /\ k < runs'[r].i => Extracted(now)
                     /\ k = runs'[r].i
                          => /\ now.status = "processing"
                             /\ runs'[r].pc \in {"reading", "requested", "rejected"}
      /\ (isProcessing /\ ~isProcessing')
           => \A r \in DOMAIN runs :
                \A k \in DOMAIN runs[r].docsToProcess :
                  PreviewFailed(runs[r].docsToProcess[k])
                    => Extracted(DocOf(documents', runs[r].docsToProcess[k].id))
      /\ ( /\ lastOp' = "runExtraction"
           /\ \E k \in DOMAIN documents : PreviewFailed(documents[k]) )
           => isProcessing' /\ Len(runs') = Len(runs) + 1 ]_vars

\* C12 witness: a document whose preview failed has been extracted with
\* success.
C12_Witness ==
  /\ lastOp = "extractSucceeded"
  /\ \E k \in DOMAIN documents :
        /\ documents[k].previewUrl = Null
        /\ documents[k].status = "success"
        /\ documents[k].data # NoData

\* The steps in which runReconciliation was called.
ReconcileCalls == {"reconcileRefused", "runReconciliation"}

\* C13: when runReconciliation is called while no document is success or
\* while there are no reference rows, it sends no request: no reconciliation
\* is put in flight, isReconciling and the stored result stay as they are,
\* and the user is alerted with the message of the failed precondition.
C13_RefusedWithoutCall ==
  [][ ( /\ lastOp' \in ReconcileCalls
        /\ \/ \A k \in DOMAIN documents : documents[k].status # "success"
           \/ referenceData = << >> )
        => /\ recons' = recons
           /\ isReconciling' = isReconciling
           /\ reconcileResult' = reconcileResult
           /\ alerted' = IF \A k \in DOMAIN documents : documents[k].status # "success"
                           THEN "Please extract data from documents first (Tick phase)."
                           ELSE "Please upload a reference dataset." ]_vars

\* C13 witness: runReconciliation was refused for want of reference rows
\* while a document was success.
C13_Witness ==
  /\ lastOp = "reconcileRefused"
  /\ alerted = "Please upload a reference dataset."
  /\ referenceData = << >>
  /\ recons = << >>
  /\ \E k \in DOMAIN documents : documents[k].status = "success"

\* C14: when an accepted reconciliation fails, the stored result is the fixed
\* error report with an empty code string, the handler ends and isReconciling
\* is false again; whenever an accepted run ends, by a response or by a
\* failure, the stored result is not null.
C14_FailureSentinel ==
  [][ /\ lastOp' = "reconcileFailed"
           => /\ reconcileResult'
                   = [report |-> "An error occurred during analysis.", code |-> << >>]
              /\ ~isReconciling'
              /\ Len(recons') = Len(recons) - 1
      /\ Len(recons') < Len(recons)
           => /\ reconcileResult' # NullResult
              /\ ~isReconciling' ]_vars

\* C14 witness: an accepted reconciliation has failed and its error report is
\* stored.
C14_Witness ==
  /\ lastOp = "reconcileFailed"
  /\ reconcileResult # NullResult
  /\ reconcileResult.report = "An error occurred during analysis."
  /\ ~isReconciling
  /\ recons = << >>

\* C15: with runReconciliation blocked while isReconciling, at most one
\* reconciliation request is outstanding, and isReconciling is true exactly
\* while an accepted run has not yet stored its result or its error report.
C15_SingleReconciliation ==
  /\ Len(recons) <= 1
  /\ isReconciling <=> Len(recons) = 1
  /\ isReconciling => reconcileResult = NullResult

\* C15 witness: a reconciliation is still in flight after the reference rows
\* were removed.
C15_Witness ==
  /\ lastOp = "referenceCleared"
  /\ isReconciling
  /\ Len(recons) = 1
  /\ recons[1].pc = "requested"

\* C16: an accepted reconciliation replaces the stored result: after a
\* response the stored report and code are those built from one response
\* alone, after a failure they are the error report and an empty code,
\* whatever was stored before the run.
C16_ResultReplaced ==
  [][ /\ lastOp' = "reconcileSucceeded"
           => \E response \in ReconcileResponses :
                reconcileResult' = ResultOf(response)
      /\ lastOp' = "reconcileFailed"
           => reconcileResult'
                = [report |-> "An error occurred during analysis.", code |-> << >>] ]_vars

\* C16 witness: a run that returned no code has replaced the result of an
\* earlier run that had returned code.
C16_Witness ==
  /\ lastOp = "reconcileSucceeded"
  /\ replaced # NullResult
  /\ replaced.code # << >>
  /\ reconcileResult # NullResult
  /\ reconcileResult.code = << >>

\* C17: the rows sent to reconciliation are one per success document, in the
\* order of the document list, and none for any other document; each row
\* holds the document's file name under fileName and, for every field, under
\* the field's name the value extracted for the field's key, or null when
\* there is none.
C17_Projection ==
  [][ lastOp' = "runReconciliation"
        => LET rows == recons'[Len(recons')].extractedData
               done == SelectSeq(documents, LAMBDA d : d.status = "success")
           IN \/ recons'[Len(recons')].pc = "rejected"
              \/ /\ Len(rows) = Len(done)
                 /\ \A j \in DOMAIN done :
                      /\ rows[j][FileNameKey] = done[j].fileName
                      /\ \A k \in DOMAIN fields :
                           rows[j][fields[k].name]
                             = IF fields[k].key \in DOMAIN done[j].data
                                 THEN done[j].data[fields[k].key].value
                                 ELSE Null ]_vars

\* C18: after a successful reconciliation response, report is the narrative
\* text of the response, or the fixed fallback when it has none, and code is
\* its executable-code fragments in the order of the parts with one
\* block-boundary comment between consecutive fragments: empty for no
\* fragment, the fragment alone for one.
C18_ReportAndCode ==
  [][ lastOp' = "reconcileSucceeded"
        => \E response \in ReconcileResponses :
             LET frags == SelectSeq(response.parts, LAMBDA part : part.executableCode)
                 n == Len(frags)
                 code == reconcileResult'.code
             IN /\ reconcileResult'.report
                     = IF response.text = ""
                         THEN "Analysis completed, but no text explanation was returned."
                         ELSE response.text
                /\ Len(code) = IF n = 0 THEN 0 ELSE 2 * n - 1
                /\ \A k \in 1..n : code[2 * k - 1] = frags[k].code
                /\ \A k \in 1..(n - 1) :
                     code[2 * k] = "\n\n# ---------------------------------------------------------\n# Next Code Block\n# ---------------------------------------------------------\n\n" ]_vars

\* C18 witness: the result of a response with two code fragments is stored.
C18_Witness ==
  /\ lastOp = "reconcileSucceeded"
  /\ reconcileResult # NullResult
  /\ reconcileResult.report = "report"
  /\ reconcileResult.code = <<"print(1)", BlockBoundary, "print(2)">>

\* A file name with _n put before its extension, the extension being the part
\* from the last dot on.
Suffixed(name, n) ==
  LET dots == { k \in DOMAIN name : name[k] = "." }
      cut == IF dots = {} THEN Len(name) + 1
             ELSE CHOOSE k \in dots : \A m \in dots : m <= k
  IN SubSeq(name, 1, cut - 1) \o <<"_">> \o DecimalOf(n) \o SubSeq(name, cut, Len(name))

\* C19: an export names the documents in list order: a document keeps its
\* file name if no earlier document of the export was given that name,
\* otherwise it gets base_<n>ext for the smallest n >= 1 whose name is not
\* yet used, ext being the part of the name from its last dot on; three
\* documents named a.pdf become a.pdf, a_1.pdf and a_2.pdf.
C19_UniqueNames ==
  lastOp = "exported"
    => LET names == exported.files
       IN /\ Len(names) = Len(documents)
          /\ \A k \in DOMAIN documents :
               LET own == Chars(documents[k].fileName)
                   used == { names[j] : j \in 1..(k - 1) }
               IN /\ exported.filenameMap[documents[k].id] = names[k]
                  /\ IF own \notin used
                       THEN names[k] = own
                       ELSE \E n \in 1..k :
                              /\ names[k] = Suffixed(own, n)
                              /\ names[k] \notin used
                              /\ \A m \in 1..(n - 1) : Suffixed(own, m) \in used
          /\ ( /\ Len(documents) = 3
               /\ \A k \in DOMAIN documents : documents[k].fileName = "a.pdf" )
               => names = << <<"a", ".", "p", "d", "f">>,
                             <<"a", "_", "1", ".", "p", "d", "f">>,
                             <<"a", "_", "2", ".", "p", "d", "f">> >>

\* C19 witness: an export of b.tar.gz, a.pdf, b.tar.gz: the third document was
\* renamed before its last dot.
C19_Witness ==
  /\ lastOp = "exported"
  /\ Len(documents) = 3
  /\ documents[1].fileName = "b.tar.gz"
  /\ documents[2].fileName = "a.pdf"
  /\ documents[3].fileName = "b.tar.gz"
  /\ exported.files[3] = <<"b", ".", "t", "a", "r", "_", "1", ".", "g", "z">>

\* C20 as stated: the columns of the primary sheet are the file name, the
\* status, then for every field in registry order its value column
\* immediately followed by its coordinate column.
C20_ColumnsInterleaved ==
  lastOp = "exported"
    => /\ Len(exported.columns) = 2 + 2 * Len(fields)
       /\ exported.columns[1] = <<"F", "i", "l", "e", " ", "N", "a", "m", "e">>
       /\ exported.columns[2] = <<"S", "t", "a", "t", "u", "s">>
       /\ \A k \in DOMAIN fields :
            /\ exported.columns[2 * k + 1] = fields[k].name
            /\ exported.columns[2 * k + 2]
                 = fields[k].name \o <<" ", "(", "C", "o", "o", "r", "d", "s", ")">>

\* C20, amended: the columns of the primary sheet are the file name, the
\* status, then the value columns of all fields in registry order, then the
\* coordinate columns of all fields in registry order.
C20_ColumnsGrouped ==
  lastOp = "exported"
    => /\ Len(exported.columns) = 2 + 2 * Len(fields)
       /\ exported.columns[1] = <<"F", "i", "l", "e", " ", "N", "a", "m", "e">>
       /\ exported.columns[2] = <<"S", "t", "a", "t", "u", "s">>
       /\ \A k \in DOMAIN fields :
            /\ exported.columns[2 + k] = fields[k].name
            /\ exported.columns[2 + Len(fields) + k]
                 = fields[k].name \o <<" ", "(", "C", "o", "o", "r", "d", "s", ")">>

\* C20 witness: an export with the three default fields and an added one:
\* the fourth value column is followed by the first coordinate column.
C20_Witness ==
  /\ lastOp = "exported"
  /\ Len(fields) = 4
  /\ Len(exported.columns) = 10
  /\ exported.columns[6] = <<"P", "O", " ", "#">>
  /\ exported.columns[7] = CoordsOf(DefaultFields[1].name)

\* C21: the primary sheet has one row per document in list order, with the
\* original file name under File Name and the document's status under
\* Status; for every field the value column holds data[field.key].value when
\* there is one and the empty text otherwise, and the coordinate column
\* holds [a,b,c,d] for a box and the empty text without one.
C21_PrimaryRows ==
  lastOp = "exported"
    => /\ Len(exported.rows) = Len(documents)
       /\ \A k \in DOMAIN documents :
            LET doc == documents[k]
                row == exported.rows[k]
            IN /\ row[<<"F", "i", "l", "e", " ", "N", "a", "m", "e">>] = doc.fileName
               /\ row[<<"S", "t", "a", "t", "u", "s">>] = doc.status
               /\ \A f \in DOMAIN fields :
                    LET present == fields[f].key \in DOMAIN doc.data
                        entry == doc.data[fields[f].key]
                        coords == row[fields[f].name
                                        \o <<" ", "(", "C", "o", "o", "r", "d", "s", ")">>]
                    IN /\ row[fields[f].name]
                            = IF present /\ entry.value # "null" THEN entry.value ELSE ""
                       /\ IF present /\ "box_2d" \in DOMAIN entry
                            THEN /\ entry.box_2d = <<50, 60, 90, 140>>
                                    => coords = <<"[", "5", "0", ",", "6", "0", ",",
                                                  "9", "0", ",", "1", "4", "0", "]">>
                                 /\ entry.box_2d = <<0, 0, 0, 0>>
                                    => coords = <<"[", "0", ",", "0", ",", "0", ",", "0", "]">>
                                 /\ coords # << >>
                            ELSE coords = << >>

\* Lines of a report as a reader of Markdown sees them: two table rows with
\* their cells, the separator row written without and with spaces, an empty
\* line and a line of prose.
RowAB == <<"|", "a", "|", "b", "|">>
RowCD == <<" ", "|", " ", "c", " ", "|", "d", "|">>
CellsAB == << <<"a">>, <<"b">> >>
CellsCD == << <<"c">>, <<"d">> >>
BareSeparator == <<"|", "-", "-", "|", "-", "|">>
SpacedSeparator == <<"|", " ", "-", "-", " ", "|", " ", "-", " ", "|">>
BlankLine == << >>
Prose == <<"O", "K">>

\* The sheet that book_append_sheet received at position k, if any.
SheetAt(k) == IF k <= Len(exported.sheets) THEN exported.sheets[k] ELSE NullTable

\* Reports of one table (header, separator, data rows), an empty line and
\* prose, each with the rows a reader takes the table to have.
OneTableReports ==
  { [report |-> JoinLines(<<RowAB, sep>> \o body \o <<BlankLine, Prose>>),
     rows |-> <<CellsAB>> \o [k \in DOMAIN body |-> CellsCD]] :
      sep \in {BareSeparator, SpacedSeparator}, body \in {<< >>, <<RowCD>>} }

\* C22: for a report of exactly one pipe table followed by an empty line and
\* prose, the parsed table is exactly the rows of the table in order, without
\* the separator row and without anything from after the empty line.
C22_OneTableExactly ==
  (lastOp = "exported" /\ reconcileResult # NullResult)
    => \A case \in OneTableReports :
         reconcileResult.report = case.report
           => SheetAt(2) = [name |-> "Joined Data Details", aoa |-> case.rows]

\* Reports of two tables with something other than a table row between them.
TwoTableReports ==
  { [report |-> JoinLines(first \o gap \o <<RowCD>>),
     rows |-> <<CellsAB>>] :
      first \in {<<RowAB>>, <<RowAB, BareSeparator>>},
      gap \in {<<BlankLine>>, <<Prose>>, <<Prose, BlankLine>>, <<BlankLine, Prose>>} }

\* C23: for a report of several pipe tables, however they are separated, the
\* parsed table has the rows of the first table and no row of a later one.
C23_FirstTableOnly ==
  (lastOp = "exported" /\ reconcileResult # NullResult)
    => \A case \in TwoTableReports :
         reconcileResult.report = case.report
           => SheetAt(2) = [name |-> "Joined Data Details", aoa |-> case.rows]

\* A report has a data row: a line that, trimmed, starts and ends with a pipe
\* and is not made of pipes and hyphens only.
HasDataRow(report) ==
  \E line \in Range(Split(report, "\n")) :
    LET t == Trim(line)
    IN /\ Len(t) > 0 /\ t[1] = "|" /\ t[Len(t)] = "|"
       /\ \E k \in DOMAIN t : t[k] \notin {"|", "-"}

KeyChars == Range(LowerCase) \cup Digits \cup {"_"}
IsLetter(c) == \E i \in DOMAIN UpperCase : c \in {UpperCase[i], LowerCase[i]}
LowerOf(c) == LowerCase[CHOOSE i \in DOMAIN UpperCase : c \in {UpperCase[i], LowerCase[i]}]

\* C25: the key that sanitize gives a field name has the length of the name
\* and holds only lower-case letters, digits and underscores: a letter is
\* lower-cased, a digit is kept, every other character becomes an underscore.
C25_SanitizeShape ==
  \A f \in DOMAIN fields :
    LET n == fields[f].name
        key == fields[f].key
    IN /\ Len(key) = Len(n)
       /\ \A k \in DOMAIN n :
            /\ key[k] \in KeyChars
            /\ key[k] = IF IsLetter(n[k]) THEN LowerOf(n[k])
                        ELSE IF n[k] \in Digits THEN n[k]
                        ELSE "_"

\* C25 witness: the name "A " was added and its key is "a_".
C25_Witness ==
  /\ lastOp = "addField"
  /\ fields[Len(fields)].name = <<"A", " ">>
  /\ fields[Len(fields)].key = <<"a", "_">>

\* C26: sanitize applied to a key gives the key back, and two fields of the
\* same name have the same key whatever the list was when each was added.
C26_SanitizeIdempotent ==
  /\ \A f \in DOMAIN fields : sanitizeKey(fields[f].key) = fields[f].key
  /\ \A f, g \in DOMAIN fields :
       fields[f].name = fields[g].name => fields[f].key = fields[g].key

\* C26 witness: Invoice Number was added a second time, after another field
\* was removed, and the list holds both fields of that name.
C26_Witness ==
  /\ lastOp = "addField"
  /\ Len(fields) = 3
  /\ fields[1].name = fields[3].name
  /\ fields[1].id # fields[3].id
  /\ fields[3].key # fields[3].name

\* C27: the colour of a field is the palette entry of its creation rank: the
\* k-th field ever created, counted from 0, has palette[k mod |palette|]
\* (the ids of the model are the creation ranks counted from 1).
C27_ColourByCreation ==
  \A f \in DOMAIN fields :
    fields[f].color = COLORS[((fields[f].id - 1) % Len(COLORS)) + 1]

\* C28: an accepted addField(name) appends one field with key sanitize(name)
\* and colour palette[c mod paletteSize], c being the length of the list
\* before; the fields that were there keep their position and content.
C28_AddAppends ==
  [][\A name \in PaletteNames :
       (AddFieldWithin(name, FullPalette + MaxFieldAdds) /\ lastOp' = "addField")
         => /\ Len(fields') = Len(fields) + 1
            /\ \A k \in DOMAIN fields : fields'[k] = fields[k]
            /\ fields'[Len(fields')].name = name
            /\ fields'[Len(fields')].key = sanitizeKey(name)
            /\ fields'[Len(fields')].color = COLORS[(Len(fields) % Len(COLORS)) + 1]
            /\ \A k \in DOMAIN fields : fields[k].id # fields'[Len(fields')].id]_vars

\* C28 witness: an eleventh field was added to ten and has the first colour
\* of the palette again.
C28_Witness ==
  /\ lastOp = "addField"
  /\ Len(fields) = Len(COLORS) + 1
  /\ fields[Len(fields)].color = COLORS[1]

\* A name that is empty or holds white space only.
Blank(name) == \A k \in DOMAIN name : name[k] \in {" ", "\t", "\n"}

\* C29: addField with a name that is empty or white space only changes
\* nothing: the list is as before and no field was created; and no field of
\* the list has such a name.
C29_BlankIgnored ==
  [][/\ \A name \in TypedNames :
          (Blank(name) /\ AddField(name)) => UNCHANGED <<fields, nextFieldId>>
     /\ \A f \in DOMAIN fields' : ~Blank(fields'[f].name)]_vars

\* C29 witness: Add was clicked with a blank name after a field was added.
C29_Witness ==
  /\ lastOp = "addFieldIgnored"
  /\ Len(fields) = Len(DefaultFields) + 1

\* The list without the element at position p.
Without(list, p) == SubSeq(list, 1, p - 1) \o SubSeq(list, p + 1, Len(list))

\* C30: removeField(id) takes out exactly the field of that id and keeps the
\* others in their order; when no field has the id the list is unchanged;
\* removing the same id again from the result changes nothing.
C30_RemoveExact ==
  [][\A id \in 1..(nextFieldId - 1) :
       RemoveField(id)
         => /\ IF \E p \in DOMAIN fields : fields[p].id = id
                 THEN \E p \in DOMAIN fields :
                        fields[p].id = id /\ fields' = Without(fields, p)
                 ELSE fields' = fields
            /\ FilterOutField(fields', id) = fields']_vars

\* C30 witness: the second field was removed from the middle of the list and
\* its neighbours are next to each other.
C30_Witness ==
  /\ lastOp = "removeField"
  /\ Len(fields) >= 2
  /\ \E k \in 1..(Len(fields) - 1) : fields[k + 1].id > fields[k].id + 1
  /\ \A k \in DOMAIN fields : fields[k].id # 2

\* The extraction and reconciliation requests that are outstanding.
RemoteCalls ==
  << [r \in DOMAIN runs |-> runs[r].pc = "requested"],
     [c \in DOMAIN recons |-> recons[c].pc = "requested"] >>

\* C31: addField and removeField change the field list only: no document
\* changes, the reconciliation result stays, and no remote call is issued;
\* and the data of a document in success never changes afterwards, so it gets
\* no value for a field added later.
C31_FieldEditFrame ==
  [][/\ ( /\ lastOp' \in {"addField", "addFieldIgnored", "removeField"}
          /\ \/ \E name \in NewFieldNames : AddField(name)
             \/ \E id \in 1..(nextFieldId - 1) : RemoveField(id) )
        => /\ documents' = documents
           /\ reconcileResult' = reconcileResult
           /\ RemoteCalls' = RemoteCalls
           /\ UNCHANGED <<tieVars, docVars, exported>>
     /\ \A k \in DOMAIN documents :
          documents[k].status = "success"
            => /\ k \in DOMAIN documents'
               /\ documents'[k].id = documents[k].id
               /\ documents'[k].status = "success"
               /\ documents'[k].data = documents[k].data]_vars

\* C31 witness: a field was added after a document was extracted; the
\* document has no entry for the key of the new field.
C31_Witness ==
  /\ lastOp = "addField"
  /\ \E k \in DOMAIN documents :
       /\ documents[k].status = "success"
       /\ documents[k].data # NoData
       /\ fields[Len(fields)].key \notin DOMAIN documents[k].data

\* Two fields of the list fs with one key show the same value and the same
\* coordinates in every row.
SameCells(rows, fs) ==
  \A f, g \in DOMAIN fs :
    fs[f].key = fs[g].key
      => \A k \in DOMAIN rows :
           /\ rows[k][fs[f].name] = rows[k][fs[g].name]
           /\ rows[k][fs[f].name \o <<" ", "(", "C", "o", "o", "r", "d", "s", ")">>]
                = rows[k][fs[g].name \o <<" ", "(", "C", "o", "o", "r", "d", "s", ")">>]

\* C32: addField accepts a name whose key a field of the list has already
\* and gives the new field that key; two fields with one key show the same
\* value and the same coordinates for every document; and every body the
\* extraction can answer with has one entry for the key.
C32_KeysCollide ==
  [][/\ \A name \in KeyNames :
          (lastOp' = "addField" /\ AddField(name))
            => /\ Len(fields') = Len(fields) + 1
               /\ fields'[Len(fields')].name = name
               /\ fields'[Len(fields')].key = sanitizeKey(name)
     /\ lastOp' = "exported" => SameCells(exported'.rows, fields')
     /\ \A r \in DOMAIN runs' :
          \A result \in Results(runs'[r].fields) \ {NoData} :
            /\ DOMAIN result = { runs'[r].fields[k].key : k \in DOMAIN runs'[r].fields }
            /\ \A k \in DOMAIN runs'[r].fields :
                 result[runs'[r].fields[k].key] \in {ExtractedValue, NotFoundValue}]_vars

\* C32 witness: INVOICE_NUMBER was added next to Invoice Number, the document
\* was extracted with both and exported: one entry, shown in both columns.
C32_Witness ==
  /\ lastOp = "exported"
  /\ Len(fields) = Len(DefaultFields) + 1
  /\ fields[1].key = fields[Len(fields)].key
  /\ fields[1].name # fields[Len(fields)].name
  /\ documents[1].status = "success"
  /\ DOMAIN documents[1].data = { fields[k].key : k \in DOMAIN DefaultFields }
  /\ exported.rows[1][fields[Len(fields)].name] = "INV-001"
  /\ exported.rows[1][fields[1].name] = "INV-001"

\* C33: the document list only grows at its end: no step removes a document
\* or changes the order of those that are there.
C33_AppendOnly ==
  [][/\ Len(documents') >= Len(documents)
     /\ \A k \in DOMAIN documents :
          /\ documents'[k].id = documents[k].id
          /\ documents'[k].file = documents[k].file
          /\ documents'[k].fileName = documents[k].fileName]_vars

\* C33 witness: of two documents the first was extracted and is still first,
\* the second is being processed.
C33_Witness ==
  /\ lastOp = "extractSucceeded"
  /\ Len(documents) = 2
  /\ documents[1].id = 1 /\ documents[1].status = "success"
  /\ documents[2].id = 2 /\ documents[2].status = "processing"

\* The documents whose status is processing.
Processing == { k \in DOMAIN documents : documents[k].status = "processing" }

\* C34: at most one document is processing, and none is while isProcessing
\* is false.
C34_OneProcessing ==
  /\ Cardinality(Processing) <= 1
  /\ ~isProcessing => Processing = {}

\* C34 witness: a run is at its second document: the first one failed, the
\* second is the only one processing.
C34_Witness ==
  /\ isProcessing
  /\ Len(documents) = 2
  /\ documents[1].status = "error"
  /\ documents[1].errorMsg = "Extraction failed"
  /\ Processing = {2}

\* C35: when every call of a run settles, a run that was started finishes
\* and isProcessing is false again, whatever the calls settle to; and only
\* the settling of a call takes a document out of processing or ends a run:
\* nothing else (no timeout) does, so a call that never settles leaves both
\* as they are.
C35_RunFinishes ==
  /\ isProcessing ~> ~isProcessing
  /\ [][/\ (isProcessing /\ ~isProcessing')
            => lastOp' \in {"extractSucceeded", "extractFailed"}
        /\ \A k \in DOMAIN documents :
             (documents[k].status = "processing" /\ documents'[k].status # "processing")
               => lastOp' \in {"extractSucceeded", "extractFailed"}]_vars

\* C35 witness: a run over two documents has finished and both failed.
C35_Witness ==
  /\ lastOp = "extractFailed"
  /\ ~isProcessing
  /\ Len(documents) = 2
  /\ \A k \in DOMAIN documents :
       documents[k].status = "error" /\ documents[k].errorMsg = "Extraction failed"

\* The ids of the documents in the copy of the list that a run works on.
CopyIds(run) == { run.docsToProcess[k].id : k \in DOMAIN run.docsToProcess }

\* C36: a run works on the list as it was when the run started: a step of
\* the run leaves every document outside that list as it is, and while a
\* run is in progress such a document has the status its upload gave it,
\* idle or error, and no data.
C36_RunUsesSnapshot ==
  [][/\ lastOp' \in {"runExtraction", "requestIssued", "extractSucceeded", "extractFailed"}
          => LET ids == IF Len(runs) > 0
                          THEN CopyIds(runs[1])
                          ELSE { documents[k].id : k \in DOMAIN documents }
             IN \A k \in DOMAIN documents :
                  documents[k].id \notin ids => documents'[k] = documents[k]
     /\ \A r \in DOMAIN runs' :
          \A k \in DOMAIN documents' :
            documents'[k].id \notin CopyIds(runs'[r])
              => /\ documents'[k].status \in {"idle", "error"}
                 /\ documents'[k].data = NoData
                 /\ documents'[k].status = "error"
                      => documents'[k].errorMsg = "Could not generate preview"]_vars

\* C36 witness: a run over one document has just finished and isProcessing
\* is false, while a document committed during the run is idle.
C36_Witness ==
  /\ lastOp \in {"extractSucceeded", "extractFailed"}
  /\ ~isProcessing
  /\ Len(documents) = 2
  /\ documents[1].status \in {"success", "error"}
  /\ documents[2].status = "idle"

\* C37: whatever the file names of the documents are, names that look like
\* renamed ones included, the names an export resolves are pairwise distinct
\* and there is exactly one of them per document id.
C37_DistinctNames ==
  lastOp = "exported"
    => LET names == exported.files
           ids == { documents[k].id : k \in DOMAIN documents }
       IN /\ Len(names) = Len(documents)
          /\ \A j, k \in DOMAIN names : j # k => names[j] # names[k]
          /\ DOMAIN exported.filenameMap = ids
          /\ Cardinality(ids) = Len(documents)
          /\ \A k \in DOMAIN documents :
               exported.filenameMap[documents[k].id] = names[k]

\* C37 witness: an export of a.pdf, a.pdf, a_1.pdf: the second document took
\* the name of the third, which was renamed in its turn.
C37_Witness ==
  /\ lastOp = "exported"
  /\ Len(documents) = 3
  /\ documents[1].fileName = "a.pdf"
  /\ documents[2].fileName = "a.pdf"
  /\ documents[3].fileName = "a_1.pdf"
  /\ exported.files[2] = <<"a", "_", "1", ".", "p", "d", "f">>
  /\ exported.files[3] = <<"a", "_", "1", "_", "1", ".", "p", "d", "f">>

\* C38: a runReconciliation refused by its preconditions leaves the stored
\* result, isReconciling and the documents as they are; an accepted one sets
\* isReconciling and clears the stored result before its request, and as
\* long as the run is in flight the stored result is null.
C38_ClearedWhileInFlight ==
  [][ /\ (lastOp' = "reconcileRefused" /\ RunReconciliation)
           => /\ reconcileResult' = reconcileResult
              /\ isReconciling' = isReconciling
              /\ documents' = documents
      /\ (lastOp' = "runReconciliation" /\ RunReconciliation)
           => /\ reconcileResult' = NullResult
              /\ isReconciling'
              /\ documents' = documents
      /\ (isReconciling' \/ recons' # << >>) => reconcileResult' = NullResult ]_vars

\* C38 witness: a run has been accepted while the result of an earlier run
\* was stored, and the stored result is null while the run is in flight.
C38_Witness ==
  /\ lastOp = "runReconciliation"
  /\ replaced # NullResult
  /\ recons # << >>
  /\ isReconciling
  /\ reconcileResult = NullResult

====
